---- MODULE Spec2Model ----
(***************************************************************************)
(* Model of the quiz-chain orchestrator (src/src/solver/quiz_solver.py),   *)
(* its Timer (src/src/utils/helpers.py) and the verdict model              *)
(* (src/src/api/models.py).                                                *)
(*                                                                         *)
(* One chain is one sequential coroutine.  An action of the model is one   *)
(* synchronous segment of that coroutine: the code between two awaits.     *)
(* The wall clock (time.time()) is the variable `now`; it advances by the  *)
(* action Tick, which may interleave anywhere while the timer runs.        *)
(* The collaborators (browser, language model, checker) are the            *)
(* environment: their results are drawn with \E from small sets.           *)
(*                                                                         *)
(* The stage functions (fetch_quiz_page, parse_quiz_task, solve_task with  *)
(* the handlers of src/src/solver/task_handlers.py, and                    *)
(* LLMClient.solve_math_problem) are operators on their inputs; CallSpec   *)
(* applies each of them once, taken alone, to inputs from bounded sets and *)
(* keeps the call in the variable `call`.                                  *)
(***************************************************************************)
EXTENDS Integers, Sequences, FiniteSets, TLC

\* ------------------------------------------------------------------ bounds
\* Largest configured settings.timeout_seconds explored (in clock ticks).
MaxTimeout == 2
\* Cap on the number of iterations of the while loop (quiz_count).
MaxIter == 2
\* Smallest configured settings.max_payload_size explored.  (The sizes of the
\* model's payloads lie around it; the default of config.py, 1048576, is far
\* above all of them.)
CeilingLow == 76
\* Number of further ceilings explored above CeilingLow.
CeilingSpan == 1

\* Longest page content (in tokens) handed to parse_quiz_task alone.
MaxTokens == 2
\* Longest list of file URLs handed to solve_task alone.
MaxFiles == 2
\* Longest reply of the language model (in characters) whose number parsing
\* is explored.
MaxReplyLen == 3
\* Largest page number a task text refers to.
MaxPageRef == 3
\* Largest number of pages of a PDF.
MaxPdfPages == 2

\* The clock is explored until one tick after the largest timeout.
MaxElapsed == MaxTimeout + 1

\* ------------------------------------------------------------------ values
\* Python's None for text values (URLs); URLs are text atoms.
None == "<None>"
\* Python's None for Timer.start_time / Timer.end_time.
TimeNone == 0 - 1
\* Python's None where a record (page, task, answer, verdict) is expected.
NoneRec == [type |-> "None"]

\* Python truthiness of an Optional[str]: None and "" are falsy.
Truthy(s) == s # None /\ s # ""

\* Quiz URLs the checker may hand out, the submission endpoint, credentials.
QuizUrls == {"https://x/q1", "https://x/q2"}
SubmitUrl == "https://x/submit"
Email == "e@x.io"
Secret == "s3cret"

\* Characters of an answer text by how json.dumps (ensure_ascii=True) writes
\* them: "plain" as itself, "quote" as \" , "nonascii" as \uXXXX.
CharClasses == {"plain", "quote", "nonascii"}

\* Answers a handler can return: text (possibly empty), integers, or None.
StrAnswer(cs) == [type |-> "str", chars |-> cs]
IntAnswer(v) == [type |-> "int", val |-> v]
Answers ==
    {StrAnswer(<<>>), StrAnswer(<<"plain">>), StrAnswer(<<"nonascii">>), IntAnswer(5)}

\* ------------------------------------------------------- pages and URLs
\* A URL or link target is a sequence of parts whose concatenation is its
\* text: an origin ("https://x/"), a slash, names, extensions and a query.
\* No part contains text of another class inside itself.
Origins == {"https://x/", "https://y/"}
DataExts == {".pdf", ".csv", ".json", ".xlsx", ".txt"}

\* The text of a URL.
RECURSIVE TextOf(_)
TextOf(parts) == IF parts = <<>> THEN "" ELSE parts[1] \o TextOf(Tail(parts))

\* The part ends in "/".
HasSlash(part) == part \in Origins \cup {"/"}

\* The content of a page is a sequence of tokens separated by white space or
\* markup: a word, a page reference ("page N"), a bare URL, or a hyperlink
\* (<a href="...">) whose visible text is a word.
Word == [kind |-> "word", href |-> <<>>, n |-> 0]
PageRef(n) == [kind |-> "pageref", href |-> <<>>, n |-> n]
Url(parts) == [kind |-> "url", href |-> parts, n |-> 0]
Link(parts) == [kind |-> "a", href |-> parts, n |-> 0]

\* parse_quiz_task line 203: the pattern https?://[^\s<>"]+/submit[^\s<>"]*
\* matches inside a bare URL or a quoted link target: the token starts with
\* http(s)://, and "/submit" follows at least one further character.
MatchesSubmit(tok) ==
    /\ tok.kind \in {"url", "a"}
    /\ Len(tok.href) >= 2
    /\ tok.href[1] \in Origins
    /\ \E i \in 2..Len(tok.href) : tok.href[i] = "submit" /\ HasSlash(tok.href[i - 1])

\* The search with the last match taken in place of the first.
RECURSIVE FindSubmitUrlLast(_)
FindSubmitUrlLast(content) ==
    IF content = <<>> THEN None
    ELSE IF MatchesSubmit(content[Len(content)])
         THEN TextOf(content[Len(content)].href)
         ELSE FindSubmitUrlLast(SubSeq(content, 1, Len(content) - 1))

\* parse_quiz_task lines 203-205: re.search returns the leftmost match, which
\* runs to the end of its token; None without a match.
RECURSIVE FindSubmitUrl(_)
FindSubmitUrl(content) ==
    IF content = <<>> THEN None
    ELSE IF MatchesSubmit(content[1]) THEN TextOf(content[1].href)
         ELSE FindSubmitUrl(Tail(content))

\* Rendered pages as far as the orchestrator's control flow reads them: the
\* content in which parse_quiz_task looks for the submit URL.  One page names
\* the next quiz and two submission endpoints, the other names none.
Pages == {[type |-> "page",
           content |-> <<Url(<<"https://x/", "q2">>), Url(<<"https://x/", "submit">>),
                         Link(<<"https://y/", "submit">>)>>],
          [type |-> "page", content |-> <<Word>>]}

\* -------------------------------------------- stage functions: values
\* A Python str as its sequence of characters (or of tokens, for page
\* text); None is NoneRec.
PyStr(cs) == [type |-> "str", chars |-> cs]

\* Python truthiness of an Optional[str] held as PyStr or NoneRec.
TruthyStr(x) == x # NoneRec /\ x.chars # <<>>

\* A float answer, by its literal.
FloatAnswer(lit) == [type |-> "float", lit |-> lit]

\* No call has been made.
NoCall == [fn |-> "none"]

\* Python's None for a page number.
NoPage == 0 - 1

\* All sequences over S of length at most n.
RECURSIVE SeqsUpTo(_, _)
SeqsUpTo(S, n) ==
    IF n = 0 THEN {<<>>}
    ELSE LET shorter == SeqsUpTo(S, n - 1) IN
         shorter \cup {Append(q, x) : q \in shorter, x \in S}

\* Link targets with a data extension somewhere in them: at the end, before
\* a query, or in the middle of the path.
FileHrefs ==
    {<<"https://x/", "report", ".pdf">>,
     <<"https://x/", "data", ".csv">>,
     <<"https://x/", "data", ".json">>,
     <<"https://x/", "notes", ".txt">>,
     <<"https://x/", "report", ".pdf", "?dl=1">>,
     <<"https://x/", "data", ".csv", "/", "view">>}

\* Tokens of a page content.
Tokens ==
    {Word, PageRef(1), Url(<<"https://x/", "submit">>), Url(<<"https://x/", "q2">>),
     Link(<<"https://y/", "submit">>), Link(<<"https://x/", "sheet", ".xlsx">>),
     Link(<<"https://x/", "page", ".html">>)}
    \cup {Link(h) : h \in FileHrefs}

Contents == SeqsUpTo(Tokens, MaxTokens)

\* What the browser shows for a URL: whether the session started, whether
\* navigation succeeded, whether the page has a #result element, the inner
\* HTML of that element, the visible text of the body, the page source.
RenderedPages ==
    {[started |-> st, nav_ok |-> nav, result |-> res, inner |-> inner, body |-> body,
      html |-> "<html>"] :
        st \in BOOLEAN, nav \in BOOLEAN, res \in {"absent", "present"},
        inner \in {<<>>, <<Word, Link(<<"https://x/", "submit">>)>>},
        body \in {<<>>, <<Word, Word>>}}

\* Replies of the language model to a parsing request: failure (None), empty,
\* a summary.
ParseReplies == {NoneRec, PyStr(<<>>), PyStr(<<"s", "u", "m">>)}

\* Characters of a reply to a solving request: a digit, the decimal point,
\* the thousands separator, the exponent letter, another letter, a blank.
ReplyChars == {"5", ".", ",", "e", "x", " "}
Replies == {PyStr(cs) : cs \in SeqsUpTo(ReplyChars, MaxReplyLen)} \cup {NoneRec}

\* Replies handed to solve_task alone.
SolveReplies ==
    {NoneRec, PyStr(<<>>), PyStr(<<"5">>), PyStr(<<"5", ".", "5">>),
     PyStr(<<"5", "e", "5">>), PyStr(<<"x">>)}

\* Task texts handed to solve_task alone: without a page reference, with one,
\* with two.
RawContents ==
    {<<Word>>, <<Word, PageRef(2), PageRef(1)>>}
    \cup {<<PageRef(n)>> : n \in 0..MaxPageRef}

\* JSON values the checker may put in the "correct" and "url" members of its
\* reply; "missing" stands for an absent member, "str:" for the empty text,
\* "str:maybe" for a text that is no boolean, "num:7" for a number.
EmptyBody == [json |-> FALSE, object |-> FALSE, correct |-> "missing", url |-> "missing"]
ValidBodies ==
    {[json |-> TRUE, object |-> TRUE, correct |-> c, url |-> u] :
        c \in {"true", "false"}, u \in {"missing", "null", "str:"} \cup QuizUrls}
InvalidBodies ==
    {EmptyBody,
     [json |-> TRUE, object |-> FALSE, correct |-> "missing", url |-> "missing"],
     [json |-> TRUE, object |-> TRUE, correct |-> "missing", url |-> "https://x/q2"],
     [json |-> TRUE, object |-> TRUE, correct |-> "str:maybe", url |-> "https://x/q2"],
     [json |-> TRUE, object |-> TRUE, correct |-> "true", url |-> "num:7"]}

\* HTTP outcomes of the POST: a transport error (an exception), or a response
\* with a status code and a body.
HttpResponses ==
    {[kind |-> "transport_error", status_code |-> 0, body |-> EmptyBody],
     [kind |-> "response", status_code |-> 500,
      body |-> [json |-> TRUE, object |-> TRUE, correct |-> "true", url |-> "https://x/q2"]]}
    \cup {[kind |-> "response", status_code |-> 200, body |-> b] :
            b \in ValidBodies \cup InvalidBodies}
NoHttp == [kind |-> "none", status_code |-> 0, body |-> EmptyBody]

\* ------------------------------------------------------ the front door
\* The quizzes that requests name, and the data file that each one's page
\* links: two of them link files with the same base name.
ServerQuizUrls == {"https://x/q1", "https://x/q2", "https://x/q3"}
LinkedFile(url) ==
    CASE url = "https://x/q1" -> <<"https://x/", "a", "/", "data", ".csv">>
      [] url = "https://x/q2" -> <<"https://x/", "b", "/", "data", ".csv">>
      [] url = "https://x/q3" -> <<"https://x/", "report", ".pdf">>

\* The bodies of the requests to POST /quiz: a text that is not JSON, a
\* JSON value that is not an object, objects without one of the fields,
\* objects with every field.
RequestBodies ==
    {[kind |-> "text"], [kind |-> "array"]}
    \cup {[kind |-> "object", fields |-> f] :
            f \in {[secret |-> Secret, url |-> "https://x/q1"],
                   [email |-> Email, url |-> "https://x/q1"],
                   [email |-> Email, secret |-> Secret],
                   [email |-> Email, secret |-> "wrong"]}}
    \cup {[kind |-> "object", fields |-> [email |-> e, secret |-> sec, url |-> "https://x/q1"]] :
            e \in {Email, "wrong@example.com", "not-an-email"},
            sec \in {Secret, "wrong"}}
    \cup {[kind |-> "object", fields |-> [email |-> Email, secret |-> Secret, url |-> u]] :
            u \in ServerQuizUrls}

VARIABLES
    now,               \* time.time()
    timeout_seconds,   \* settings.timeout_seconds = Timer.timeout_seconds
    max_payload_size,  \* settings.max_payload_size
    start_time,        \* Timer.start_time
    end_time,          \* Timer.end_time
    pc,                \* where the chain's coroutine is
    initial_url,       \* argument of solve_quiz_chain
    current_url,       \* solve_quiz_chain: current_url
    quiz_count,        \* solve_quiz_chain: quiz_count
    quiz_data,         \* solve_single_quiz: quiz_data
    task_info,         \* solve_single_quiz: task_info
    answer,            \* solve_single_quiz: answer
    response,          \* solve_single_quiz: response (SubmitResponse or None)
    http,              \* submit_answer: the outcome of client.post
    exit_by,           \* how the while loop was left: "while" or "break"
    reported,          \* the chain's final log line (lines 74-77)
    log,               \* history: stage events in order
    overrun,           \* history: a stage returned after the Budget had expired
    submits,           \* history: calls of submit_answer
    sent,              \* history: POST requests put on the network
    call,              \* one call of a stage function taken alone: its
                       \* arguments, what its collaborators did, its result
    responses,         \* history: the requests to POST /quiz and their responses
    tasks,             \* the tasks that receive_quiz created on the event loop
    disk,              \* the files of the directory downloads/
    reads,             \* history: the files that handlers read
    blocking           \* the task inside a call that holds the loop's thread

vars == <<now, timeout_seconds, max_payload_size, start_time, end_time, pc,
          initial_url, current_url, quiz_count, quiz_data, task_info, answer,
          response, http, exit_by, reported, log, overrun, submits, sent, call,
          responses, tasks, disk, reads, blocking>>

\* The state of the server: the front door, the tasks of the event loop and
\* the download directory.
server == <<responses, tasks, disk, reads, blocking>>

\* ------------------------------------------------------------------- Timer
\* Timer.elapsed
elapsed ==
    IF start_time = TimeNone THEN 0
    ELSE (IF end_time # TimeNone /\ end_time # 0 THEN end_time ELSE now) - start_time

\* Timer.is_timeout with > in place of >=.
is_timeout_strict == elapsed > timeout_seconds

\* Timer.is_timeout
is_timeout == elapsed >= timeout_seconds

\* Timer.remaining without the max(0.0, ...).
remaining_unclamped == timeout_seconds - elapsed

\* Timer.remaining
remaining ==
    IF timeout_seconds - elapsed > 0 THEN timeout_seconds - elapsed ELSE 0

\* ------------------------------------------------------------ payload size
\* Number of characters of the decimal numeral of a non-negative integer.
RECURSIVE Digits(_)
Digits(n) == IF n < 10 THEN 1 ELSE 1 + Digits(n \div 10)

\* Length of one character of a text as json.dumps writes it.
EscapedLen(c) ==
    CASE c = "plain" -> 1
      [] c = "quote" -> 2
      [] c = "nonascii" -> 6

RECURSIVE EscapedSum(_)
EscapedSum(cs) == IF cs = <<>> THEN 0 ELSE EscapedLen(Head(cs)) + EscapedSum(Tail(cs))

\* Length of json.dumps(answer) for the answers of the model.
JsonAnswerLen(a) ==
    CASE a.type = "str" -> 2 + EscapedSum(a.chars)
      [] a.type = "int" -> IF a.val < 0 THEN 1 + Digits(0 - a.val) ELSE Digits(a.val)

\* Length of json.dumps of a text without characters that need escaping.
JsonTextLen(s) == 2 + Len(s)

\* helpers.get_payload_size: len(json.dumps(data).encode('utf-8')) for
\* data = {"email":..., "secret":..., "url":..., "answer":...}; json.dumps
\* separates items by ", " and keys from values by ": ", and its output is
\* ASCII, so bytes = characters.
get_payload_size(p) ==
    2 + (Len("email") + 4 + JsonTextLen(p.email)) + 2
      + (Len("secret") + 4 + JsonTextLen(p.secret)) + 2
      + (Len("url") + 4 + JsonTextLen(p.url)) + 2
      + (Len("answer") + 4 + JsonAnswerLen(p.answer))

\* submit_answer's guard with >= in place of >.
PayloadTooLargeOrEqual(p) == get_payload_size(p) >= max_payload_size

\* submit_answer lines 355-358: the payload guard.
PayloadTooLarge(p) == get_payload_size(p) > max_payload_size

\* --------------------------------------------------------------- verdicts
\* pydantic validation of SubmitResponse.correct (bool, required).
CorrectValid(c) == c \in {"true", "false"}

\* pydantic validation of SubmitResponse.url (Optional[str], default None).
UrlValid(u) == u \in {"missing", "null", "str:"} \cup QuizUrls

\* The value of SubmitResponse.url after validation.
UrlValue(u) ==
    CASE u \in {"missing", "null"} -> None
      [] u = "str:" -> ""
      [] OTHER -> u

\* SubmitResponse(**data) for a body that is a JSON object with valid members.
MakeSubmitResponse(b) ==
    [type |-> "SubmitResponse", correct |-> (b.correct = "true"), url |-> UrlValue(b.url)]

\* submit_answer lines 367-376 without the status check.
SubmitResultAnyStatus(r) ==
    IF r.kind = "response" /\ r.body.json /\ r.body.object
       /\ CorrectValid(r.body.correct) /\ UrlValid(r.body.url)
    THEN MakeSubmitResponse(r.body)
    ELSE NoneRec

\* submit_answer lines 365-376: what the call returns for the outcome of the
\* POST: the parsed verdict on status 200 with a valid body, None on a
\* transport error, a non-200 status, a body that is not JSON
\* (response.json() raises), not an object or fails validation
\* (SubmitResponse(**data) raises).
SubmitResult(r) ==
    IF r.kind = "response" /\ r.status_code = 200 /\ r.body.json /\ r.body.object
       /\ CorrectValid(r.body.correct) /\ UrlValid(r.body.url)
    THEN MakeSubmitResponse(r.body)
    ELSE NoneRec

\* ------------------------------------------------------------ the chain
\* A stage event of the history: which iteration, which stage, what happened
\* ("start", "ok", "fail"), the quiz URL of the iteration, and for a
\* successful SUBMIT the verdict.
Ev(i, stage, ev, data) ==
    [iter |-> i, stage |-> stage, ev |-> ev, url |-> current_url, data |-> data]

\* What the history records for a stage that returned `result`.
Outcome(result) == IF result = NoneRec THEN "fail" ELSE "ok"

\* solve_quiz_chain line 55 without the Budget check.
LoopConditionNoTimer == Truthy(current_url)

\* solve_quiz_chain line 55: the while condition.
LoopCondition == Truthy(current_url) /\ ~is_timeout

\* solve_quiz_chain lines 74-77: the final log line.
Report == IF is_timeout THEN "timed_out" ELSE "success"

\* Leaving the loop: the final report and Timer.__exit__.
EndChain(how) ==
    /\ reported' = Report
    /\ end_time' = now
    /\ exit_by' = how
    /\ pc' = "done"

\* solve_quiz_chain lines 68-72 with `continue` on a falsy result.
ChainAfterQuizRetry(next_url) ==
    /\ current_url' = (IF Truthy(next_url) THEN next_url ELSE current_url)
    /\ pc' = "loop_head"
    /\ UNCHANGED <<reported, end_time, exit_by>>

\* solve_quiz_chain lines 68-72: what the loop does with the result of
\* solve_single_quiz.
ChainAfterQuiz(next_url) ==
    IF Truthy(next_url)
    THEN /\ current_url' = next_url
         /\ pc' = "loop_head"
         /\ UNCHANGED <<reported, end_time, exit_by>>
    ELSE /\ EndChain("break")
         /\ UNCHANGED current_url

\* solve_single_quiz lines 135-143, returning the URL only of a correct verdict.
NextUrlIfCorrect(resp) ==
    IF resp # NoneRec /\ resp.correct THEN resp.url ELSE None

\* solve_single_quiz lines 135-143, returning the quiz URL again after an
\* incorrect verdict without next URL.
NextUrlRetryIncorrect(resp) ==
    IF resp = NoneRec THEN None
    ELSE IF ~resp.correct /\ ~Truthy(resp.url) THEN current_url ELSE resp.url

\* solve_single_quiz lines 135-143: the value returned after submit_answer.
NextUrlOf(resp) == IF resp # NoneRec THEN resp.url ELSE None

\* The stage sequence with PARSE skipped.
NextStageSkipParse(stage) ==
    CASE stage = "FETCH" -> "SOLVE"
      [] stage = "PARSE" -> "SOLVE"
      [] stage = "SOLVE" -> "SUBMIT"

\* solve_single_quiz lines 98-133: the stage that follows a successful stage.
NextStage(stage) ==
    CASE stage = "FETCH" -> "PARSE"
      [] stage = "PARSE" -> "SOLVE"
      [] stage = "SOLVE" -> "SUBMIT"

\* A stage result check that also gives up when the Budget is expired.
ProceedIfBudget(result) == result # NoneRec /\ ~is_timeout

\* A stage's result lets the iteration go on only when it is truthy.
ProceedIfTruthy(result) ==
    result # NoneRec /\ (result.type = "str" => result.chars # <<>>)

\* solve_single_quiz lines 101, 107, 115: a stage's result lets the
\* iteration go on (`if not quiz_data`, `if not task_info`,
\* `if answer is None`; pages and tasks are never empty mappings).
Proceed(result) == result # NoneRec

locals == <<quiz_data, task_info, answer, response, http>>
config == <<timeout_seconds, max_payload_size, initial_url>>

Init ==
    /\ now = 1
    /\ timeout_seconds \in 0..MaxTimeout
    /\ max_payload_size \in CeilingLow..(CeilingLow + CeilingSpan)
    /\ initial_url \in {"https://x/q1", ""}
    /\ start_time = TimeNone
    /\ end_time = TimeNone
    /\ pc = "start"
    /\ current_url = None
    /\ quiz_count = 0
    /\ quiz_data = NoneRec
    /\ task_info = NoneRec
    /\ answer = NoneRec
    /\ response = NoneRec
    /\ http = NoHttp
    /\ exit_by = "none"
    /\ reported = "none"
    /\ log = <<>>
    /\ overrun = FALSE
    /\ submits = <<>>
    /\ sent = <<>>
    /\ call = NoCall
    /\ responses = <<>>
    /\ tasks = <<>>
    /\ disk = {}
    /\ reads = <<>>
    /\ blocking = 0

\* The wall clock advances while the Timer runs.
Tick ==
    /\ pc \notin {"start", "done"}
    /\ now < start_time + MaxElapsed
    /\ now' = now + 1
    /\ UNCHANGED <<server, call, timeout_seconds, max_payload_size, start_time, end_time, pc,
                   initial_url, current_url, quiz_count, quiz_data, task_info,
                   answer, response, http, exit_by, reported, log, overrun, submits,
                   sent>>

\* solve_quiz_chain lines 51-54: the locals and Timer.__enter__.
EnterTimer ==
    /\ pc = "start"
    /\ current_url' = initial_url
    /\ quiz_count' = 0
    /\ start_time' = now
    /\ pc' = "loop_head"
    /\ UNCHANGED <<server, call, now, config, end_time, locals, exit_by, reported, log, overrun,
                   submits, sent>>

\* A call of solve_single_quiz that starts with the locals of the call
\* before it.
NewIterationKeepsLocals == UNCHANGED <<quiz_data, task_info, answer, response, http>>

\* solve_quiz_chain lines 61-66 and solve_single_quiz lines 98-100: each
\* iteration is a new call of solve_single_quiz, whose locals (quiz_data,
\* task_info, answer, response) are unbound when it starts.
NewIteration ==
    /\ quiz_data' = NoneRec
    /\ task_info' = NoneRec
    /\ answer' = NoneRec
    /\ response' = NoneRec
    /\ http' = NoHttp

\* solve_quiz_chain lines 55-66 and solve_single_quiz line 100: the while
\* condition holds, the iteration is counted and fetch_quiz_page is called.
LoopEnter ==
    /\ pc = "loop_head"
    /\ LoopCondition
    /\ quiz_count < MaxIter
    /\ quiz_count' = quiz_count + 1
    /\ NewIteration
    /\ log' = Append(log, Ev(quiz_count + 1, "FETCH", "start", NoneRec))
    /\ pc' = "FETCH"
    /\ UNCHANGED <<server, call, now, config, start_time, end_time, current_url, exit_by,
                   reported, overrun, submits, sent>>

\* solve_quiz_chain lines 55, 74-77: the while condition fails.
LoopExit ==
    /\ pc = "loop_head"
    /\ ~LoopCondition
    /\ EndChain("while")
    /\ UNCHANGED <<server, call, now, config, start_time, current_url, quiz_count, locals,
                   log, overrun, submits, sent>>

\* solve_single_quiz lines 100-106: fetch_quiz_page returns a page, or None
\* (navigation failed, no content, or an exception).
FetchDone(page) ==
    /\ pc = "FETCH"
    /\ overrun' = (overrun \/ is_timeout)
    /\ IF Proceed(page)
       THEN /\ quiz_data' = page
            /\ pc' = NextStage("FETCH")
            /\ log' = log \o <<Ev(quiz_count, "FETCH", "ok", NoneRec),
                               Ev(quiz_count, NextStage("FETCH"), "start", NoneRec)>>
            /\ UNCHANGED <<current_url, reported, end_time, exit_by>>
       ELSE /\ quiz_data' = NoneRec
            /\ log' = Append(log, Ev(quiz_count, "FETCH", Outcome(page), NoneRec))
            /\ ChainAfterQuiz(None)
    /\ UNCHANGED <<server, call, now, config, start_time, quiz_count, task_info, answer,
                   response, http, submits, sent>>

\* parse_quiz_task lines 191-229 as the orchestrator sees it: the task with
\* the submit URL found in the content, or None when parsing raised.
ParseResult(page, raised) ==
    IF raised THEN NoneRec
    ELSE [type |-> "task", submit_url |-> FindSubmitUrl(page.content)]

\* solve_single_quiz lines 106-114: parse_quiz_task returns.
ParseDone(raised) ==
    /\ pc = "PARSE"
    /\ overrun' = (overrun \/ is_timeout)
    /\ LET t == ParseResult(quiz_data, raised) IN
       IF Proceed(t)
       THEN /\ task_info' = t
            /\ pc' = NextStage("PARSE")
            /\ log' = log \o <<Ev(quiz_count, "PARSE", "ok", NoneRec),
                               Ev(quiz_count, NextStage("PARSE"), "start", NoneRec)>>
            /\ UNCHANGED <<current_url, reported, end_time, exit_by>>
       ELSE /\ task_info' = NoneRec
            /\ log' = Append(log, Ev(quiz_count, "PARSE", Outcome(t), NoneRec))
            /\ ChainAfterQuiz(None)
    /\ UNCHANGED <<server, call, now, config, start_time, quiz_count, quiz_data, answer,
                   response, http, submits, sent>>

\* The submit URL taken as present without a look at the task.
HasSubmitUrlAlways(task) == TRUE

\* solve_single_quiz lines 122-125: `if not submit_url`, after solve_task.
HasSubmitUrl(task) == Truthy(task.submit_url)

\* solve_single_quiz lines 114-126: solve_task returns an answer or None;
\* then the submit URL of the task is looked up.
SolveDone(a) ==
    /\ pc = "SOLVE"
    /\ overrun' = (overrun \/ is_timeout)
    /\ answer' = a
    /\ IF ~Proceed(a)
       THEN /\ log' = Append(log, Ev(quiz_count, "SOLVE", Outcome(a), NoneRec))
            /\ ChainAfterQuiz(None)
       ELSE IF ~HasSubmitUrl(task_info)
       THEN /\ log' = log \o <<Ev(quiz_count, "SOLVE", "ok", NoneRec),
                               Ev(quiz_count, NextStage("SOLVE"), "start", NoneRec),
                               Ev(quiz_count, NextStage("SOLVE"), "fail", NoneRec)>>
            /\ ChainAfterQuiz(None)
       ELSE /\ log' = log \o <<Ev(quiz_count, "SOLVE", "ok", NoneRec),
                               Ev(quiz_count, NextStage("SOLVE"), "start", NoneRec)>>
            /\ pc' = NextStage("SOLVE")
            /\ UNCHANGED <<current_url, reported, end_time, exit_by>>
    /\ UNCHANGED <<server, call, now, config, start_time, quiz_count, quiz_data, task_info,
                   response, http, submits, sent>>

\* The payload with the submit URL in its url member.
PayloadSubmitUrl ==
    [email |-> Email, secret |-> Secret, url |-> task_info.submit_url, answer |-> answer]

\* solve_quiz_chain lines 61-66, solve_single_quiz lines 127-133 and
\* submit_answer lines 347-352: the payload built from the chain's email and
\* secret, the quiz URL of the iteration and the answer.
Payload ==
    [email |-> Email, secret |-> Secret, url |-> current_url, answer |-> answer]

\* solve_single_quiz lines 127-133 and submit_answer lines 345-365: the
\* payload is built and measured; too large, submit_answer returns None and
\* the iteration fails; otherwise the POST is sent.
SubmitAnswer ==
    /\ pc = "SUBMIT"
    /\ overrun' = (overrun \/ is_timeout)
    /\ submits' = Append(submits, [iter |-> quiz_count, payload |-> Payload])
    /\ IF PayloadTooLarge(Payload)
       THEN /\ log' = Append(log, Ev(quiz_count, "SUBMIT", "fail", NoneRec))
            /\ ChainAfterQuiz(NextUrlOf(NoneRec))
            /\ UNCHANGED sent
       ELSE /\ sent' = Append(sent, [iter |-> quiz_count, to |-> task_info.submit_url,
                                     payload |-> Payload])
            /\ pc' = "POST"
            /\ UNCHANGED <<log, current_url, reported, end_time, exit_by>>
    /\ UNCHANGED <<server, call, now, config, start_time, quiz_count, locals>>

\* submit_answer lines 365-376 and solve_single_quiz lines 135-143: the POST
\* returns (or raises); the verdict, if any, decides what is returned to the
\* loop.
PostDone(r) ==
    /\ pc = "POST"
    /\ overrun' = (overrun \/ is_timeout)
    /\ http' = r
    /\ response' = SubmitResult(r)
    /\ log' = Append(log, Ev(quiz_count, "SUBMIT", Outcome(SubmitResult(r)),
                             SubmitResult(r)))
    /\ ChainAfterQuiz(NextUrlOf(SubmitResult(r)))
    /\ UNCHANGED <<server, call, now, config, start_time, quiz_count, quiz_data, task_info,
                   answer, submits, sent>>

Next ==
    \/ Tick
    \/ EnterTimer
    \/ LoopEnter
    \/ LoopExit
    \/ \E page \in Pages \cup {NoneRec} : FetchDone(page)
    \/ \E raised \in BOOLEAN : ParseDone(raised)
    \/ \E a \in Answers \cup {NoneRec} : SolveDone(a)
    \/ SubmitAnswer
    \/ \E r \in HttpResponses : PostDone(r)

Spec == Init /\ [][Next]_vars

\* The chain's own steps: everything but the clock.
ChainStep ==
    \/ EnterTimer
    \/ LoopEnter
    \/ LoopExit
    \/ \E page \in Pages \cup {NoneRec} : FetchDone(page)
    \/ \E raised \in BOOLEAN : ParseDone(raised)
    \/ \E a \in Answers \cup {NoneRec} : SolveDone(a)
    \/ SubmitAnswer
    \/ \E r \in HttpResponses : PostDone(r)

\* Termination does not read the payload ceiling: one ceiling, which some of
\* the model's payloads exceed and some do not, is explored for it.
LiveInit == Init /\ max_payload_size = CeilingLow

\* The chain under the assumptions of the termination claim: the clock
\* advances, synchronous code runs on and every awaited stage returns.
LiveSpec == LiveInit /\ [][Next]_vars /\ WF_vars(Tick) /\ WF_vars(ChainStep)

\* ------------------------------------------- stage functions: fetching
\* BrowserHandler.extract_quiz_instructions: waiting for "#result" raises
\* when the page has no such element and None is returned; otherwise the
\* inner HTML of the element, or the visible text of the body when that is
\* empty.
extract_quiz_instructions(r) ==
    IF r.result = "absent" THEN NoneRec
    ELSE IF r.inner # <<>> THEN PyStr(r.inner)
    ELSE PyStr(r.body)

\* fetch_quiz_page: None when the browser session does not start (the
\* exception is caught), navigation fails or there is no content; otherwise
\* the page record.
fetch_quiz_page(url, r) ==
    IF ~r.started \/ ~r.nav_ok THEN NoneRec
    ELSE LET content == extract_quiz_instructions(r) IN
         IF ~TruthyStr(content) THEN NoneRec
         ELSE [type |-> "page", content |-> content.chars, html |-> r.html, url |-> url]

\* -------------------------------------------- stage functions: parsing
\* soup.get_text(): the text of the content; of a hyperlink only its visible
\* text remains.
text_content(content) ==
    [i \in 1..Len(content) |-> IF content[i].kind = "a" THEN Word ELSE content[i]]

\* `ext in href` for one of the five data extensions.
ContainsDataExt(href) == \E i \in 1..Len(href) : href[i] \in DataExts

\* href.endswith(ext) for one of the five data extensions.
EndsWithDataExt(href) == href # <<>> /\ href[Len(href)] \in DataExts

\* The link filter with endswith in place of `in`.
RECURSIVE FileUrlsEndsWith(_)
FileUrlsEndsWith(content) ==
    IF content = <<>> THEN <<>>
    ELSE (IF content[1].kind = "a" /\ EndsWithDataExt(content[1].href)
          THEN <<content[1].href>> ELSE <<>>) \o FileUrlsEndsWith(Tail(content))

\* parse_quiz_task lines 208-212: the targets of the hyperlinks that contain
\* a data extension, in document order.
RECURSIVE FileUrls(_)
FileUrls(content) ==
    IF content = <<>> THEN <<>>
    ELSE (IF content[1].kind = "a" /\ ContainsDataExt(content[1].href)
          THEN <<content[1].href>> ELSE <<>>) \o FileUrls(Tail(content))

\* The task description without the fall-back to the page text.
DescriptionNoFallback(reply, text) == reply

\* parse_quiz_task line 221: task_description or text_content.
Description(reply, text) == IF TruthyStr(reply) THEN reply ELSE PyStr(text)

\* parse_quiz_task lines 191-226, given the reply of the language model
\* (None when the request failed).
parse_quiz_task(page, reply) ==
    [type |-> "task",
     task_description |-> Description(reply, text_content(page.content)),
     raw_content |-> text_content(page.content),
     submit_url |-> FindSubmitUrl(page.content),
     file_urls |-> FileUrls(page.content),
     html |-> page.html]

\* -------------------------------------- stage functions: number parsing
\* str.strip() on a sequence of characters.
RECURSIVE Strip(_)
Strip(cs) ==
    IF cs = <<>> THEN cs
    ELSE IF cs[1] = " " THEN Strip(Tail(cs))
    ELSE IF cs[Len(cs)] = " " THEN Strip(SubSeq(cs, 1, Len(cs) - 1))
    ELSE cs

\* str.replace(',', '')
RemoveCommas(cs) == SelectSeq(cs, LAMBDA c : c # ",")

AllDigits(cs) == \A i \in 1..Len(cs) : cs[i] = "5"

\* int(text) succeeds: digits, with white space around them allowed.
IntLiteral(cs) == Strip(cs) # <<>> /\ AllDigits(Strip(cs))

\* Digits with at most one decimal point and at least one digit.
Mantissa(cs) ==
    \/ cs # <<>> /\ AllDigits(cs)
    \/ /\ Len(cs) > 1
       /\ \E k \in 1..Len(cs) :
             /\ cs[k] = "."
             /\ AllDigits(SubSeq(cs, 1, k - 1))
             /\ AllDigits(SubSeq(cs, k + 1, Len(cs)))

\* float(text) succeeds: a mantissa and an optional exponent, with white
\* space around them allowed.
FloatLiteral(cs) ==
    LET t == Strip(cs) IN
    \/ Mantissa(t)
    \/ \E k \in 2..(Len(t) - 1) :
          /\ t[k] = "e"
          /\ Mantissa(SubSeq(t, 1, k - 1))
          /\ AllDigits(SubSeq(t, k + 1, Len(t)))

\* The value of a sequence of digits.
RECURSIVE IntValue(_)
IntValue(cs) ==
    IF cs = <<>> THEN 0 ELSE 10 * IntValue(SubSeq(cs, 1, Len(cs) - 1)) + 5

\* LLMClient.solve_math_problem lines 193-214, given the reply of
\* analyze_text: None for no or an empty reply; otherwise the stripped reply
\* without commas is parsed with float() when it contains a decimal point
\* and with int() when not, and the stripped reply is returned as text when
\* that parse raises ValueError.
solve_math_problem(reply) ==
    IF ~TruthyStr(reply) THEN NoneRec
    ELSE LET stripped == Strip(reply.chars)
             clean_num == RemoveCommas(stripped)
         IN IF \E i \in 1..Len(clean_num) : clean_num[i] = "."
            THEN (IF FloatLiteral(clean_num) THEN FloatAnswer(Strip(clean_num))
                  ELSE StrAnswer(stripped))
            ELSE (IF IntLiteral(clean_num) THEN IntAnswer(IntValue(Strip(clean_num)))
                  ELSE StrAnswer(stripped))

\* How json.dumps and the POST (json=payload) write an answer.
JsonKind(a) ==
    CASE a = NoneRec -> "null"
      [] a # NoneRec /\ a.type = "str" -> "string"
      [] a # NoneRec /\ a.type \in {"int", "float"} -> "number"

\* -------------------------------------------- stage functions: solving
\* The query parts of a URL.
Queries == {"?dl=1"}

\* download_file line 310: url.split('/')[-1].split('?')[0].
Filename(url) ==
    LET slashes == {i \in 1..Len(url) : HasSlash(url[i])}
        last == IF slashes = {} THEN 0
                ELSE CHOOSE i \in slashes : \A j \in slashes : j <= i
        rest == SubSeq(url, last + 1, Len(url))
        marks == {i \in 1..Len(rest) : rest[i] \in Queries}
    IN IF marks = {} THEN rest
       ELSE SubSeq(rest, 1, (CHOOSE i \in marks : \A j \in marks : i <= j) - 1)

\* download_file lines 304-322: the path downloads/<filename> when the
\* browser saved the file, None when it did not (an empty file name makes
\* the path the directory itself, and saving fails).
download_file(url, ok) ==
    IF ok /\ Filename(url) # <<>>
    THEN [type |-> "path", parts |-> <<"downloads/">> \o Filename(url)]
    ELSE NoneRec

\* The download loop left at the first failed download.
RECURSIVE DownloadedUntilFailure(_, _, _)
DownloadedUntilFailure(file_urls, oks, i) ==
    IF i > Len(file_urls) THEN <<>>
    ELSE LET file_path == download_file(file_urls[i], oks[i]) IN
         IF file_path = NoneRec THEN <<>>
         ELSE <<file_path>> \o DownloadedUntilFailure(file_urls, oks, i + 1)

\* solve_task lines 247-252: the paths of the files that were downloaded, in
\* the order of the file URLs.
RECURSIVE Downloaded(_, _, _)
Downloaded(file_urls, oks, i) ==
    IF i > Len(file_urls) THEN <<>>
    ELSE LET file_path == download_file(file_urls[i], oks[i]) IN
         (IF file_path # NoneRec THEN <<file_path>> ELSE <<>>)
         \o Downloaded(file_urls, oks, i + 1)

\* str(f).endswith(ext) for one of the extensions.
EndsWith(f, exts) == f.parts[Len(f.parts)] \in exts

\* The dispatch decided by the first downloaded file alone.
ClassifyFirstFile(files) ==
    IF files # <<>> /\ EndsWith(files[1], {".pdf"}) THEN "pdf"
    ELSE IF files # <<>> /\ EndsWith(files[1], {".csv", ".json"}) THEN "analysis"
    ELSE "general"

\* solve_task lines 262, 275, 285: the branch taken for the downloaded files.
Classify(files) ==
    IF files # <<>> /\ \E i \in 1..Len(files) : EndsWith(files[i], {".pdf"}) THEN "pdf"
    ELSE IF files # <<>> /\ \E i \in 1..Len(files) : EndsWith(files[i], {".csv", ".json"})
    THEN "analysis"
    ELSE "general"

\* solve_task line 263: next(f for f in downloaded_files if ...endswith('.pdf')).
FirstPdf(files) ==
    files[CHOOSE i \in 1..Len(files) :
             /\ EndsWith(files[i], {".pdf"})
             /\ \A j \in 1..(i - 1) : ~EndsWith(files[j], {".pdf"})]

\* solve_task lines 266-267: the number of the first "page <digits>" of the
\* task text, None without one.
PageNumber(raw) ==
    LET refs == {i \in 1..Len(raw) : raw[i].kind = "pageref"} IN
    IF refs = {} THEN NoPage
    ELSE raw[CHOOSE i \in refs : \A j \in refs : i <= j].n

\* What a handler did: the pages whose text it extracted, the replies the
\* language model gave it, the answer it returned.
Handled(extracted, llm, a) == [extracted |-> extracted, llm |-> llm, answer |-> a]

\* A handler that raised: the exception is caught and None is returned.
Raised == Handled(<<>>, <<>>, NoneRec)

\* PDFProcessingHandler.handle lines 70-97: `if page_num:` selects the page
\* with index page_num - 1 (IndexError past the last page), and all pages
\* otherwise; the reply of analyze_text is the answer.
PdfHandle(page_num, pdf_pages, reply) ==
    IF page_num # NoPage /\ page_num # 0
    THEN (IF page_num <= pdf_pages THEN Handled(<<page_num>>, <<reply>>, reply)
          ELSE Raised)
    ELSE Handled([i \in 1..pdf_pages |-> i], <<reply>>, reply)

\* DataAnalysisHandler.handle lines 105-129: a "csv" payload is read from
\* the path with pandas; a "json" payload is the path text itself given to
\* json.loads, which raises; then solve_math_problem.
AnalysisHandle(data_type, readable, reply) ==
    IF data_type = "csv" /\ readable
    THEN Handled(<<>>, <<reply>>, solve_math_problem(reply))
    ELSE Raised

\* GeneralTaskHandler.handle with the reply parsed as a number.
GeneralHandleParsed(reply) == Handled(<<>>, <<reply>>, solve_math_problem(reply))

\* GeneralTaskHandler.handle lines 217-229: the reply of analyze_text is the
\* answer.
GeneralHandle(reply) == Handled(<<>>, <<reply>>, reply)

\* QuizSolver.__init__ lines 33-40: the keys of the registered handlers.
Handlers == {"scraping", "pdf", "analysis", "api", "visualization", "general"}

\* The handler table with the raw-API handler in the last branch.
HandlerKeyApi(branch) ==
    CASE branch = "pdf" -> "pdf"
      [] branch = "analysis" -> "analysis"
      [] branch = "general" -> "api"

\* solve_task lines 269, 279, 286: the key under which each branch looks up
\* its handler in self.handlers.
HandlerKey(branch) ==
    CASE branch = "pdf" -> "pdf"
      [] branch = "analysis" -> "analysis"
      [] branch = "general" -> "general"

\* solve_task lines 241-292, given what the collaborators do: which
\* downloads succeed, how many pages the PDF has, whether pandas reads the
\* data file, what the language model replies.
solve_task(task, oks, pdf_pages, readable, reply) ==
    LET downloaded_files == Downloaded(task.file_urls, oks, 1)
        branch == Classify(downloaded_files)
    IN CASE branch = "pdf" ->
              LET page_num == PageNumber(task.raw_content) IN
              [handler |-> HandlerKey("pdf"), files |-> downloaded_files,
               file |-> FirstPdf(downloaded_files), page_number |-> page_num,
               data_type |-> "",
               handled |-> PdfHandle(page_num, pdf_pages, reply)]
         [] branch = "analysis" ->
              LET data_file == downloaded_files[1]
                  data_type == IF EndsWith(data_file, {".csv"}) THEN "csv" ELSE "json"
              IN [handler |-> HandlerKey("analysis"), files |-> downloaded_files,
                  file |-> data_file, page_number |-> NoPage, data_type |-> data_type,
                  handled |-> AnalysisHandle(data_type, readable, reply)]
         [] branch = "general" ->
              [handler |-> HandlerKey("general"), files |-> downloaded_files, file |-> NoneRec,
               page_number |-> NoPage, data_type |-> "",
               handled |-> GeneralHandle(reply)]

\* ------------------------------------------ stage functions: raw API
\* The method of a raw-API context: absent (the default 'GET' is taken),
\* None, or a text.
ApiMethods == {"<missing>", None, "GET", "get", "POST", "Post", "PUT", ""}

\* What the endpoint does with the one request: a response with a status
\* and a body, or a transport error.
ApiOutcomes ==
    {[kind |-> "response", status_code |-> 200, text |-> "body"],
     [kind |-> "response", status_code |-> 201, text |-> "body"],
     [kind |-> "response", status_code |-> 500, text |-> "oops"],
     [kind |-> "error", status_code |-> 0, text |-> ""]}

\* str.upper() left out: the method compared as it is written.
UpperIdentity(m) == m

\* str.upper() on the methods of the model.
Upper(m) ==
    CASE m = "get" -> "GET"
      [] m = "Post" -> "POST"
      [] OTHER -> m

\* What the raw-API handler did: the requests it sent, the contexts it gave
\* to the language model, its answer.
ApiHandled(requests, contexts, a) ==
    [requests |-> requests, contexts |-> contexts, answer |-> a]

\* APIHandler.handle lines 137-167: context.get('method', 'GET'); one GET or
\* one POST by method.upper(), None for another method (None.upper() raises
\* and is caught); the body of a 200 response goes to analyze_text, whose
\* reply is the answer; None for another status or a transport error.
ApiHandle(method, outcome, reply) ==
    LET m == IF method = "<missing>" THEN "GET" ELSE method IN
    IF m = None \/ Upper(m) \notin {"GET", "POST"} THEN ApiHandled(<<>>, <<>>, NoneRec)
    ELSE IF outcome.kind = "response" /\ outcome.status_code = 200
         THEN ApiHandled(<<Upper(m)>>, <<outcome.text>>, reply)
         ELSE ApiHandled(<<Upper(m)>>, <<>>, NoneRec)

\* --------------------------------------- stage functions: browser session
\* What BrowserHandler.start opens, in order, and what close closes, in
\* order.
StartSteps == <<"playwright", "browser", "context", "page">>
CloseSteps == <<"page", "context", "browser", "playwright">>

\* The elements of a sequence up to index n.
Upto(q, n) == {q[i] : i \in 1..n}

\* `async with BrowserHandler() as browser:` (fetch_quiz_page line 159,
\* download_file line 314) around a body, given the step of start that
\* raises (0: none), the step of close that raises (0: none), and whether
\* the object whose close raised was closed all the same.
\* start (lines 31-47) re-raises: __aenter__ fails, the body and __aexit__
\* do not run, and what was opened stays open.  close (lines 49-62) runs its
\* steps in one try: a step that raises ends it, the later steps do not run.
browser_session(start_raises_at, close_raises_at, closed_anyway) ==
    IF start_raises_at > 0
    THEN [sessions |-> 1, entered |-> FALSE, closes |-> 0,
          left_open |-> Upto(StartSteps, start_raises_at - 1)]
    ELSE IF close_raises_at = 0
    THEN [sessions |-> 1, entered |-> TRUE, closes |-> 1, left_open |-> {}]
    ELSE [sessions |-> 1, entered |-> TRUE, closes |-> 1,
          left_open |-> (Upto(StartSteps, 4) \ Upto(CloseSteps, close_raises_at - 1))
                        \ (IF closed_anyway THEN {CloseSteps[close_raises_at]} ELSE {})]

\* ------------------------------------------- stage functions: the calls
chain == <<now, timeout_seconds, max_payload_size, start_time, end_time, pc,
           initial_url, current_url, quiz_count, quiz_data, task_info, answer,
           response, http, exit_by, reported, log, overrun, submits, sent>>

\* One call of fetch_quiz_page for what the browser shows.
FetchQuizPage ==
    /\ call = NoCall
    /\ \E r \in RenderedPages :
          call' = [fn |-> "fetch_quiz_page", rendered |-> r,
                   result |-> fetch_quiz_page("https://x/q1", r)]
    /\ UNCHANGED <<chain, server>>

\* One call of parse_quiz_task for a page content and the reply of the
\* language model.
ParseQuizTask ==
    /\ call = NoCall
    /\ \E content \in Contents, reply \in ParseReplies :
          LET page == [type |-> "page", content |-> content, html |-> "<html>",
                       url |-> "https://x/q1"]
          IN call' = [fn |-> "parse_quiz_task", content |-> content, llm |-> <<reply>>,
                      result |-> parse_quiz_task(page, reply)]
    /\ UNCHANGED <<chain, server>>

\* One call of solve_task.  What the branch taken does not read (the page
\* reference and the PDF outside the PDF branch, the data file outside the
\* tabular branch) is held at one value.
SolveTask ==
    /\ call = NoCall
    /\ \E file_urls \in SeqsUpTo(FileHrefs, MaxFiles) :
       \E oks \in [1..Len(file_urls) -> BOOLEAN] :
       LET branch == Classify(Downloaded(file_urls, oks, 1)) IN
       \E raw \in (IF branch = "pdf" THEN RawContents ELSE {<<Word>>}),
          pdf_pages \in (IF branch = "pdf" THEN 1..MaxPdfPages ELSE {1}),
          readable \in (IF branch = "analysis" THEN BOOLEAN ELSE {TRUE}),
          reply \in SolveReplies :
          LET task == [type |-> "task", task_description |-> PyStr(raw),
                       raw_content |-> raw, submit_url |-> None,
                       file_urls |-> file_urls, html |-> "<html>"]
          IN call' = [fn |-> "solve_task", file_urls |-> file_urls, oks |-> oks,
                      raw |-> raw, pdf_pages |-> pdf_pages, readable |-> readable,
                      reply |-> reply,
                      result |-> solve_task(task, oks, pdf_pages, readable, reply)]
    /\ UNCHANGED <<chain, server>>

\* One call of solve_math_problem for a reply of the language model.
SolveMathProblem ==
    /\ call = NoCall
    /\ \E reply \in Replies :
          call' = [fn |-> "solve_math_problem", reply |-> reply,
                   result |-> solve_math_problem(reply)]
    /\ UNCHANGED <<chain, server>>

\* One call of the raw-API handler.
ApiHandlerCall ==
    /\ call = NoCall
    /\ \E method \in ApiMethods, outcome \in ApiOutcomes, reply \in SolveReplies :
          call' = [fn |-> "api_handle", method |-> method, outcome |-> outcome,
                   reply |-> reply, result |-> ApiHandle(method, outcome, reply)]
    /\ UNCHANGED <<chain, server>>

\* ------------------------------------------- stage functions: JSON text
\* How long the texts given to validate_json are.
MaxJsonLen == 4

\* How deep the arrays of a document may nest before the decoder raises
\* RecursionError: the interpreter's recursion limit, scaled down.
RecursionLimit == 2

\* The characters of the texts: the brackets of an array, a number, and a
\* character that no JSON document has.
JsonChars == {"[", "]", "1", "x"}

\* The arguments of validate_json: texts, bytes that decode as UTF-8 to a
\* text, bytes that do not decode, and values of other types.
JsonInputs ==
    {[type |-> ty, text |-> cs, decodable |-> TRUE] :
        ty \in {"str", "bytes"}, cs \in SeqsUpTo(JsonChars, MaxJsonLen)}
    \cup {[type |-> "bytes", text |-> <<>>, decodable |-> FALSE]}
    \cup {[type |-> ty, text |-> <<>>, decodable |-> TRUE] :
            ty \in {"NoneType", "int", "list"}}

\* The decoder's scan of one value at position i, inside d arrays: a
\* number, or an array of at most one value; entering an array beyond the
\* recursion limit raises RecursionError.
RECURSIVE ScanValue(_, _, _)
ScanValue(cs, i, d) ==
    IF i > Len(cs) THEN [res |-> "JSONDecodeError", next |-> i]
    ELSE IF cs[i] = "1" THEN [res |-> "ok", next |-> i + 1]
    ELSE IF cs[i] = "["
         THEN IF d + 1 > RecursionLimit THEN [res |-> "RecursionError", next |-> i]
              ELSE IF i + 1 <= Len(cs) /\ cs[i + 1] = "]"
                   THEN [res |-> "ok", next |-> i + 2]
              ELSE LET inner == ScanValue(cs, i + 1, d + 1) IN
                   IF inner.res # "ok" THEN inner
                   ELSE IF inner.next <= Len(cs) /\ cs[inner.next] = "]"
                        THEN [res |-> "ok", next |-> inner.next + 1]
                   ELSE [res |-> "JSONDecodeError", next |-> inner.next]
    ELSE [res |-> "JSONDecodeError", next |-> i]

\* json.loads of a text: one value and nothing after it.
LoadsText(cs) ==
    LET r == ScanValue(cs, 1, 0) IN
    IF r.res # "ok" THEN r.res
    ELSE IF r.next = Len(cs) + 1 THEN "ok" ELSE "JSONDecodeError"

\* json.loads: a str is scanned; bytes are decoded first, which raises
\* UnicodeDecodeError when they are not UTF-8; any other type raises
\* TypeError.
json_loads(data) ==
    CASE data.type = "str" -> LoadsText(data.text)
      [] data.type = "bytes" ->
            IF data.decodable THEN LoadsText(data.text) ELSE "UnicodeDecodeError"
      [] OTHER -> "TypeError"

\* validate_json, helpers.py lines 59-63: True when json.loads returns,
\* False on JSONDecodeError or TypeError; another exception leaves the
\* function.
validate_json(data) ==
    LET r == json_loads(data) IN
    IF r = "ok" THEN [raised |-> "", value |-> TRUE]
    ELSE IF r \in {"JSONDecodeError", "TypeError"} THEN [raised |-> "", value |-> FALSE]
    ELSE [raised |-> r, value |-> FALSE]

\* One call of validate_json.
ValidateJson ==
    /\ call = NoCall
    /\ \E data \in JsonInputs :
          call' = [fn |-> "validate_json", data |-> data, result |-> validate_json(data)]
    /\ UNCHANGED <<chain, server>>

\* solve_single_quiz lines 113-133 as a function of what solve_task's
\* collaborators do: the answer of solve_task, and the calls of
\* submit_answer, none when the answer is None or the task has no submit
\* URL.
solve_and_submit(task, oks, pdf_pages, readable, reply) ==
    LET solved == solve_task(task, oks, pdf_pages, readable, reply)
        a == solved.handled.answer
    IN [handler |-> solved.handler, llm |-> solved.handled.llm, answer |-> a,
        submit_calls |-> IF Proceed(a) /\ HasSubmitUrl(task)
                         THEN <<[submit_url |-> task.submit_url, answer |-> a]>>
                         ELSE <<>>]

\* One call of solve_task followed by the submission of its answer.
SolveAndSubmit ==
    /\ call = NoCall
    /\ \E file_urls \in SeqsUpTo(FileHrefs, 1) :
       \E oks \in [1..Len(file_urls) -> BOOLEAN] :
       LET branch == Classify(Downloaded(file_urls, oks, 1)) IN
       \E pdf_pages \in (IF branch = "pdf" THEN 1..MaxPdfPages ELSE {1}),
          raw \in (IF branch = "pdf" THEN {<<Word>>, <<PageRef(2)>>} ELSE {<<Word>>}),
          readable \in (IF branch = "analysis" THEN BOOLEAN ELSE {TRUE}),
          reply \in SolveReplies,
          submit_url \in {None, SubmitUrl} :
          LET task == [type |-> "task", task_description |-> PyStr(raw),
                       raw_content |-> raw, submit_url |-> submit_url,
                       file_urls |-> file_urls, html |-> "<html>"]
          IN call' = [fn |-> "solve_and_submit", file_urls |-> file_urls, oks |-> oks,
                      raw |-> raw, pdf_pages |-> pdf_pages, readable |-> readable,
                      reply |-> reply, submit_url |-> submit_url,
                      result |-> solve_and_submit(task, oks, pdf_pages, readable, reply)]
    /\ UNCHANGED <<chain, server>>

\* One rendering session around a fetch or a download.
BrowserSession ==
    /\ call = NoCall
    /\ \E start_raises_at \in 0..4, close_raises_at \in 0..4, closed_anyway \in BOOLEAN :
          /\ start_raises_at > 0 => close_raises_at = 0
          /\ close_raises_at = 0 => ~closed_anyway
          /\ call' = [fn |-> "browser_session", start_raises_at |-> start_raises_at,
                      close_raises_at |-> close_raises_at,
                      closed_anyway |-> closed_anyway,
                      result |-> browser_session(start_raises_at, close_raises_at,
                                                 closed_anyway)]
    /\ UNCHANGED <<chain, server>>

CallNext ==
    \/ FetchQuizPage
    \/ ParseQuizTask
    \/ SolveTask
    \/ SolveMathProblem
    \/ ApiHandlerCall
    \/ BrowserSession
    \/ ValidateJson
    \/ SolveAndSubmit

\* The stage functions taken alone: no chain runs.
CallInit == Init /\ timeout_seconds = 0 /\ max_payload_size = CeilingLow /\ initial_url = ""

CallSpec == CallInit /\ [][CallNext]_vars

\* ------------------------------------------------------------ the server
\* How many requests the front door is sent.
MaxRequests == 2

\* QuizRequest(**body), models.py lines 7-12 and server.py lines 52-57: the
\* body is an object with the three fields, and email is an address.
Validates(body) ==
    /\ body.kind = "object"
    /\ DOMAIN body.fields = {"email", "secret", "url"}
    /\ body.fields.email # "not-an-email"

\* The secret looked at only when the email is the configured one, as if
\* the email were checked first.
SecretMatchesAfterEmail(req) == req.secret = Secret \/ req.email # Email

\* server.py line 60.
SecretMatches(req) == req.secret = Secret

\* The check of the email left out.
EmailAny(req) == TRUE

\* server.py line 65.
EmailMatches(req) == req.email = Email

\* receive_quiz lines 44-77: the status code and the status of the response.
receive_quiz(body) ==
    IF body.kind = "text" THEN [status_code |-> 400, status |-> "Invalid JSON"]
    ELSE IF ~Validates(body)
         THEN [status_code |-> 400, status |-> "Invalid request format"]
    ELSE IF ~SecretMatches(body.fields)
         THEN [status_code |-> 403, status |-> "Invalid secret"]
    ELSE IF ~EmailMatches(body.fields)
         THEN [status_code |-> 403, status |-> "Invalid email"]
    ELSE [status_code |-> 200, status |-> "success"]

\* The chain awaited by the front door: it has ended when the response is
\* made.
awaited_task(req) ==
    [url |-> req.url, pc |-> "done", outcome |-> "completed", file |-> NoneRec]

\* asyncio.create_task(solve_quiz_task(quiz_request)), server.py line 72:
\* the task is put on the loop and has not run.
create_task(req) ==
    [url |-> req.url, pc |-> "created", outcome |-> "running", file |-> NoneRec]

\* The loop's thread is not inside a call that does not return to the loop.
LoopFree == blocking = 0

\* The task t at a new position.
At(t, pos) == [tasks EXCEPT ![t].pc = pos]

\* The task t ended.
Ended(t, outcome) == [tasks EXCEPT ![t].pc = "done", ![t].outcome = outcome]

\* The file of the download directory with a path.
FileAt(path) == CHOOSE f \in disk : f.path = path

\* One request: receive_quiz from the body to the response, with the task
\* it creates.
ReceiveQuiz ==
    /\ LoopFree
    /\ Len(responses) < MaxRequests
    /\ \E body \in RequestBodies :
          LET r == receive_quiz(body) IN
          /\ responses' = Append(responses,
                [body |-> body, status_code |-> r.status_code, status |-> r.status,
                 task |-> IF r.status_code = 200 THEN Len(tasks) + 1 ELSE 0])
          /\ tasks' = IF r.status_code = 200
                      THEN Append(tasks, create_task(body.fields))
                      ELSE tasks
    /\ UNCHANGED <<disk, reads, blocking, chain, call>>

\* solve_quiz_task lines 87-96 up to the first wait: QuizSolver() raises,
\* which the except logs, or the chain starts rendering its page.
TaskStart(t) ==
    /\ LoopFree
    /\ tasks[t].pc = "created"
    /\ \E raises \in BOOLEAN :
          tasks' = IF raises THEN Ended(t, "error_logged") ELSE At(t, "render")
    /\ UNCHANGED <<responses, disk, reads, blocking, chain, call>>

\* The page is rendered or not: fetch_quiz_page returns; on a page
\* parse_quiz_task calls analyze_text, whose client.chat.completions.create
\* (llm_client.py line 52) is a call of the synchronous client.
RenderDone(t) ==
    /\ LoopFree
    /\ tasks[t].pc = "render"
    /\ \E ok \in BOOLEAN :
          IF ok THEN tasks' = At(t, "llm_parse") /\ blocking' = t
          ELSE tasks' = Ended(t, "stopped") /\ blocking' = 0
    /\ UNCHANGED <<responses, disk, reads, chain, call>>

\* The language model's reply arrives: after parse_quiz_task the task goes
\* on to download its file (a wait on the browser), after the handler to
\* submit its answer (a wait on the HTTP client).
LlmReturn(t) ==
    /\ blocking = t
    /\ tasks[t].pc \in {"llm_parse", "llm_solve"}
    /\ tasks' = At(t, IF tasks[t].pc = "llm_parse" THEN "download" ELSE "submit")
    /\ blocking' = 0
    /\ UNCHANGED <<responses, disk, reads, chain, call>>

\* browser.download_file returns (browser_handler.py lines 179-190): the
\* body is written to downloads/<file name>, or the download failed; then
\* the session is closed, which waits on the browser.
DownloadDone(t) ==
    /\ LoopFree
    /\ tasks[t].pc = "download"
    /\ \E ok \in BOOLEAN :
          LET file_path == download_file(LinkedFile(tasks[t].url), ok) IN
          /\ tasks' = [tasks EXCEPT ![t].pc = "closing", ![t].file = file_path]
          /\ disk' = IF file_path = NoneRec THEN disk
                     ELSE {f \in disk : f.path # file_path}
                          \cup {[path |-> file_path,
                                 content |-> LinkedFile(tasks[t].url),
                                 writer |-> t]}
    /\ UNCHANGED <<responses, reads, blocking, chain, call>>

\* The session is closed and download_file returns to solve_task, whose
\* handler reads the downloaded file (task_handlers.py lines 77 and 111)
\* and calls the language model.
CloseDone(t) ==
    /\ LoopFree
    /\ tasks[t].pc = "closing"
    /\ reads' = IF tasks[t].file = NoneRec THEN reads
                ELSE Append(reads, [task |-> t, path |-> tasks[t].file,
                                    content |-> FileAt(tasks[t].file).content,
                                    writer |-> FileAt(tasks[t].file).writer])
    /\ tasks' = At(t, "llm_solve")
    /\ blocking' = t
    /\ UNCHANGED <<responses, disk, chain, call>>

\* The POST of the answer returns and the chain ends: on a verdict without
\* a next URL, on a failed stage or an exception that solve_single_quiz
\* caught (lines 144-146), or on the timer.
SubmitDone(t) ==
    /\ LoopFree
    /\ tasks[t].pc = "submit"
    /\ \E outcome \in {"completed", "stopped", "timed_out"} :
          tasks' = Ended(t, outcome)
    /\ UNCHANGED <<responses, disk, reads, blocking, chain, call>>

ServerNext ==
    \/ ReceiveQuiz
    \/ \E t \in 1..Len(tasks) : TaskStart(t)
    \/ \E t \in 1..Len(tasks) : RenderDone(t)
    \/ \E t \in 1..Len(tasks) : LlmReturn(t)
    \/ \E t \in 1..Len(tasks) : DownloadDone(t)
    \/ \E t \in 1..Len(tasks) : CloseDone(t)
    \/ \E t \in 1..Len(tasks) : SubmitDone(t)

ServerInit == Init /\ timeout_seconds = 0 /\ max_payload_size = CeilingLow /\ initial_url = ""

ServerSpec == ServerInit /\ [][ServerNext]_vars

\* ------------------------------------------------------- reading the history
Stages == <<"FETCH", "PARSE", "SOLVE", "SUBMIT">>

LastEv == log[Len(log)]

IsEv(e, stage, ev) == e.stage = stage /\ e.ev = ev

\* The POST requests sent in iteration i.
PostsOf(i) == {j \in 1..Len(sent) : sent[j].iter = i}

\* The events of iteration i, in order.
EventsOf(i) == SelectSeq(log, LAMBDA e : e.iter = i)

\* The terminal state of section 4.7 by what ended the chain: the while
\* condition found the Budget expired, a stage failed, or a verdict came
\* without next URL.  (A chain started with an empty URL ends in none.)
StopState ==
    IF pc # "done" THEN "RUNNING"
    ELSE IF exit_by = "while"
         THEN (IF Truthy(current_url) THEN "STOP-TIMEOUT" ELSE "STOP-EMPTY")
         ELSE (IF LastEv.ev = "fail" THEN "STOP-ERROR" ELSE "STOP-COMPLETE")

\* ------------------------------------------------------------------ claims

\* C1: fail-stop.  A failed stage (it returned nothing or raised) is the last
\* thing that happens in a chain: it is not started again, no later stage of
\* the iteration starts, no further URL is fetched, and the chain has ended.
C1_FailStop ==
    \A k \in 1..Len(log) :
        log[k].ev = "fail" =>
            /\ k = Len(log)
            /\ pc = "done"
            /\ exit_by = "break"
            /\ quiz_count = log[k].iter
            /\ Cardinality({j \in 1..Len(log) :
                   IsEv(log[j], log[k].stage, "start") /\ log[j].iter = log[k].iter}) = 1
            /\ Cardinality(PostsOf(log[k].iter)) <= 1

\* C1 witness: the PARSE stage of the second iteration failed and the chain
\* has ended.
C1_Witness ==
    /\ pc = "done"
    /\ Len(log) > 0
    /\ IsEv(LastEv, "PARSE", "fail")
    /\ LastEv.iter = 2

\* C2: a FETCH stage begins only while the Budget is not expired
\* (remaining() > 0), and a loop head that finds the Budget expired for a
\* current URL starts no stage and ends the chain reported as timed out.
C2_NoFetchWhenExpired ==
    [][/\ (pc' = "FETCH" /\ pc # "FETCH") => remaining > 0
       /\ (pc = "loop_head" /\ Truthy(current_url) /\ remaining = 0 /\ pc' # pc) =>
              /\ pc' = "done"
              /\ exit_by' = "while"
              /\ reported' = "timed_out"
              /\ log' = log
              /\ sent' = sent]_vars

\* C2 witness: after one iteration that returned a next URL the loop head
\* found the Budget expired and the chain ended without fetching it.
C2_Witness ==
    /\ pc = "done"
    /\ exit_by = "while"
    /\ reported = "timed_out"
    /\ quiz_count = 1
    /\ current_url = "https://x/q2"
    /\ IsEv(LastEv, "SUBMIT", "ok")

\* C3: after a successful SUBMIT the verdict's url alone decides: present and
\* non-empty, the next thing is the loop head with exactly that URL, followed
\* by FETCH of that URL unless the Budget is found expired; absent, null or
\* empty, the chain has stopped by break and nothing follows.  The verdict's
\* correct flag does not appear in the rule.
C3_NextByUrlOnly ==
    \A k \in 1..Len(log) :
        IsEv(log[k], "SUBMIT", "ok") =>
            LET v == log[k].data IN
            IF Truthy(v.url)
            THEN /\ k = Len(log) =>
                      /\ current_url = v.url
                      /\ pc \in {"loop_head", "done"}
                      /\ pc = "done" => (exit_by = "while" /\ is_timeout)
                 /\ k < Len(log) =>
                      /\ IsEv(log[k + 1], "FETCH", "start")
                      /\ log[k + 1].url = v.url
                      /\ log[k + 1].iter = log[k].iter + 1
            ELSE /\ k = Len(log)
                 /\ pc = "done"
                 /\ exit_by = "break"

\* C3 witness: a verdict with correct = false and a next URL was followed by
\* the FETCH of that URL.
C3_Witness ==
    \E k \in 1..Len(log) :
        /\ IsEv(log[k], "SUBMIT", "ok")
        /\ ~log[k].data.correct
        /\ k < Len(log)
        /\ log[k + 1].url = "https://x/q2"
        /\ IsEv(log[k + 1], "FETCH", "start")

\* C4: a verdict with correct = false and no next URL ends the chain in
\* STOP-COMPLETE: the quiz URL of that iteration was fetched once and
\* submitted once, and nothing is fetched or submitted after the verdict.
C4_IncorrectNoRetry ==
    \A k \in 1..Len(log) :
        (IsEv(log[k], "SUBMIT", "ok") /\ ~log[k].data.correct /\ ~Truthy(log[k].data.url)) =>
            /\ StopState = "STOP-COMPLETE"
            /\ k = Len(log)
            /\ Cardinality({j \in 1..Len(log) :
                   IsEv(log[j], "FETCH", "start") /\ log[j].iter = log[k].iter}) = 1
            /\ Cardinality(PostsOf(log[k].iter)) = 1
            /\ sent[Len(sent)].iter = log[k].iter

\* C4 witness: the checker answered {"correct": false, "url": null} and the
\* chain has ended.
C4_Witness ==
    /\ pc = "done"
    /\ http.kind = "response"
    /\ http.body.correct = "false"
    /\ http.body.url = "null"
    /\ response # NoneRec

\* The j-th event of an iteration that runs its stages in order.
ExpectedStage(j) == Stages[(j + 1) \div 2]

\* C5: the events of every iteration are FETCH, PARSE, SOLVE, SUBMIT in this
\* order, each stage starting right after the previous one returned a result;
\* iterations follow each other in the history, and the first event of
\* iteration N+1 comes right after the successful SUBMIT of iteration N.
C5_StageOrder ==
    /\ \A i \in 1..quiz_count :
          LET es == EventsOf(i) IN
          /\ Len(es) <= 8
          /\ \A j \in 1..Len(es) :
                /\ es[j].stage = ExpectedStage(j)
                /\ (j % 2 = 1) => (es[j].ev = "start" /\ (j > 1 => es[j - 1].ev = "ok"))
                /\ (j % 2 = 0) => es[j].ev \in {"ok", "fail"}
    /\ \A k \in 1..Len(log) :
          /\ log[k].iter \in 1..quiz_count
          /\ k = 1 => log[k].iter = 1
          /\ k > 1 => \/ log[k].iter = log[k - 1].iter
                      \/ /\ log[k].iter = log[k - 1].iter + 1
                         /\ IsEv(log[k - 1], "SUBMIT", "ok")
                         /\ IsEv(log[k], "FETCH", "start")
    /\ pc \in {"FETCH", "PARSE", "SOLVE", "SUBMIT"} => IsEv(LastEv, pc, "start")
    /\ pc = "POST" => IsEv(LastEv, "SUBMIT", "start")

\* C5 witness: the second iteration has run all four stages.
C5_Witness ==
    /\ Len(log) = 16
    /\ IsEv(LastEv, "SUBMIT", "ok")
    /\ LastEv.iter = 2

\* The position of a stage in the order of section 4.7.
StageIndex(stage) == CHOOSE n \in 1..4 : Stages[n] = stage

\* C6: the Budget never pre-empts a stage.  An iteration ends only with
\* the return of its SUBMIT stage or with a stage that returned nothing: a
\* stage that returned a result is followed by the next stage also when the
\* Budget has expired meanwhile.  Once a stage has returned after expiry, no
\* new iteration begins, and the chain ends reported as timed out; when the
\* overrun iteration returned a next URL, the chain ends in STOP-TIMEOUT at
\* the loop head.
C6_NoPreemption ==
    /\ [](/\ \A k \in 1..Len(log) :
                (log[k].ev = "ok" /\ log[k].stage # "SUBMIT") =>
                    /\ k < Len(log)
                    /\ IsEv(log[k + 1], Stages[StageIndex(log[k].stage) + 1], "start")
                    /\ log[k + 1].iter = log[k].iter
          /\ (pc = "done" /\ overrun) =>
                /\ reported = "timed_out"
                /\ (IsEv(LastEv, "SUBMIT", "ok") /\ Truthy(LastEv.data.url)) =>
                       StopState = "STOP-TIMEOUT")
    /\ [][overrun => ~(pc = "loop_head" /\ pc' = "FETCH")]_vars

\* C6 witness: the Budget expired while an iteration was in flight; the
\* iteration ran on to a verdict with a next URL, and the chain then ended
\* at the loop head, reported as timed out, without fetching that URL.
C6_Witness ==
    /\ pc = "done"
    /\ overrun
    /\ exit_by = "while"
    /\ reported = "timed_out"
    /\ IsEv(LastEv, "SUBMIT", "ok")
    /\ Truthy(LastEv.data.url)
    /\ Len(EventsOf(quiz_count)) = 8

\* C7: under LiveSpec every chain ends; and whenever the chain is at the
\* loop head with a current URL and remaining() = 0, it ends reported as
\* timed out, whatever the checker returned.
C7_Terminates ==
    /\ <>(pc = "done")
    /\ (pc = "loop_head" /\ Truthy(current_url) /\ remaining = 0)
          ~> (pc = "done" /\ exit_by = "while" /\ reported = "timed_out")

\* C7 witness: the checker returned a next URL in every iteration and the
\* chain ended on the Budget.
C7_Witness ==
    /\ pc = "done"
    /\ StopState = "STOP-TIMEOUT"
    /\ quiz_count = 2
    /\ \A i \in 1..quiz_count :
          \E k \in 1..Len(log) :
              /\ log[k].iter = i
              /\ IsEv(log[k], "SUBMIT", "ok")
              /\ Truthy(log[k].data.url)

\* C8: the outcome reported at the end of a chain tells the three terminal
\* states apart: timed out is reported only in STOP-TIMEOUT, and success
\* only in STOP-COMPLETE, so never after a failed stage.  (A chain that was
\* given no URL at all ends in none of the three and is left out.)
C8_ReportDistinguishes ==
    (pc = "done" /\ StopState # "STOP-EMPTY") =>
        /\ reported = "timed_out" => StopState = "STOP-TIMEOUT"
        /\ reported = "success" => StopState = "STOP-COMPLETE"

\* C9: payload guard.  For every call of submit_answer: a payload whose
\* serialized size exceeds the ceiling is never put on the network and the
\* call fails; a payload of at most the ceiling is sent, as built.
C9_PayloadGuard ==
    /\ \A k \in 1..Len(submits) :
          LET p == submits[k].payload
              i == submits[k].iter
          IN  IF get_payload_size(p) > max_payload_size
              THEN /\ PostsOf(i) = {}
                   /\ pc = "done"
                   /\ IsEv(LastEv, "SUBMIT", "fail")
                   /\ response = NoneRec
              ELSE /\ Cardinality(PostsOf(i)) = 1
                   /\ \A j \in PostsOf(i) : sent[j].payload = p
    /\ \A j \in 1..Len(sent) : get_payload_size(sent[j].payload) <= max_payload_size

\* C9 witness: the second iteration's payload exceeded the ceiling and was
\* not sent, after a first iteration whose payload just fitted.
C9_Witness ==
    /\ Len(submits) = 2
    /\ Len(sent) = 1
    /\ get_payload_size(submits[1].payload) = max_payload_size
    /\ get_payload_size(submits[2].payload) > max_payload_size
    /\ pc = "done"

\* A POST outcome that is a failure in the words of the claim: a transport
\* error, a status other than 200, or a body that is no verdict.
IsVerdictBody(b) ==
    /\ b.json
    /\ b.object
    /\ b.correct \in {"true", "false"}
    /\ b.url # "num:7"
PostFailed(r) ==
    \/ r.kind = "transport_error"
    \/ r.status_code # 200
    \/ ~IsVerdictBody(r.body)

\* C10: one POST per call and no retry.  No iteration sends more than one
\* POST; when the POST failed (transport error, non-200 status, invalid
\* body) submit_answer returned None, the SUBMIT stage failed, the chain has
\* ended, and the failed POST is the last request sent.
C10_OnePostNoRetry ==
    /\ \A i \in 1..quiz_count : Cardinality(PostsOf(i)) <= 1
    /\ pc = "POST" => Cardinality(PostsOf(quiz_count)) = 1
    /\ (http.kind # "none" /\ PostFailed(http)) =>
          /\ response = NoneRec
          /\ IsEv(LastEv, "SUBMIT", "fail")
          /\ pc = "done"
          /\ exit_by = "break"
          /\ Cardinality(PostsOf(quiz_count)) = 1
          /\ sent[Len(sent)].iter = quiz_count
    /\ (http.kind # "none" /\ ~PostFailed(http)) =>
          /\ response # NoneRec
          /\ IsEv(LastEv, "SUBMIT", "ok")

\* C10 witness: the checker answered 500 with a well-formed verdict body; the
\* chain has ended after the one POST of that iteration.
C10_Witness ==
    /\ http.kind = "response"
    /\ http.status_code = 500
    /\ http.body.correct = "true"
    /\ pc = "done"
    /\ Len(sent) = quiz_count

\* The quiz URL that iteration i fetched.
FetchedUrl(i) ==
    log[CHOOSE k \in 1..Len(log) : IsEv(log[k], "FETCH", "start") /\ log[k].iter = i].url

\* C11: every payload built for submission carries the chain's email and
\* secret unchanged, and its url member is the quiz URL fetched in the same
\* iteration: not the submit URL it is posted to, nor the quiz URL of another
\* iteration.
C11_PayloadIdentity ==
    /\ \A j \in 1..Len(submits) :
           /\ submits[j].payload.email = Email
           /\ submits[j].payload.secret = Secret
           /\ submits[j].payload.url = FetchedUrl(submits[j].iter)
    /\ \A j \in 1..Len(sent) :
           /\ sent[j].payload.email = Email
           /\ sent[j].payload.secret = Secret
           /\ sent[j].payload.url = FetchedUrl(sent[j].iter)
           /\ sent[j].payload.url # sent[j].to

\* C11 witness: two iterations posted, each with its own quiz URL.
C11_Witness ==
    /\ Len(sent) = 2
    /\ sent[1].payload.url = "https://x/q1"
    /\ sent[2].payload.url = "https://x/q2"
    /\ sent[2].iter = 2

\* The first token of the content that is a URL with a /submit path
\* component, as an index (0 when there is none).
FirstSubmitIndex(content) ==
    LET hits == {i \in 1..Len(content) :
                    /\ content[i].kind \in {"url", "a"}
                    /\ \E k \in 2..Len(content[i].href) :
                           content[i].href[k] = "submit"
                           /\ HasSlash(content[i].href[k - 1])}
    IN IF hits = {} THEN 0 ELSE CHOOSE i \in hits : \A h \in hits : i <= h

\* C18: the submit URL of a parsed task is the first URL of the content with
\* a /submit path component; when the content has none, the task has no
\* submit URL, no POST is sent in the iteration, and once SOLVE has returned
\* the iteration has failed and the chain has ended.
C18_SubmitUrlFirstMatch ==
    (task_info # NoneRec) =>
        LET i == FirstSubmitIndex(quiz_data.content) IN
        /\ i > 0 => task_info.submit_url = TextOf(quiz_data.content[i].href)
        /\ i = 0 =>
              /\ ~Truthy(task_info.submit_url)
              /\ PostsOf(quiz_count) = {}
              /\ pc \in {"SOLVE", "done"}
              /\ pc = "done" => LastEv.ev = "fail" /\ exit_by = "break"
        /\ \A j \in PostsOf(quiz_count) : sent[j].to = task_info.submit_url

\* C18 witness: the first iteration posted to the first of two submit URLs of
\* its page; the page of the second iteration had none, its answer was
\* computed, and the chain ended without a second POST.
C18_Witness ==
    /\ pc = "done"
    /\ quiz_count = 2
    /\ task_info # NoneRec
    /\ ~Truthy(task_info.submit_url)
    /\ answer # NoneRec
    /\ Len(sent) = 1
    /\ sent[1].to = "https://x/submit"

\* ------------------------------------------- claims on the stage functions
IsCall(fn) == call # NoCall /\ call.fn = fn

\* The text is a number for Python: float() or int() accepts it.
ParsesAsNumber(cs) == FloatLiteral(cs) \/ IntLiteral(cs)

IsNumeric(a) == a # NoneRec /\ a.type \in {"int", "float"}

\* C12 as stated: for a task without files the catch-all handler is used and
\* the reply "5" is submitted as the integer 5.
C12_NumericReplyAsInteger ==
    (IsCall("solve_task") /\ call.file_urls = <<>> /\ call.reply = PyStr(<<"5">>)) =>
        /\ call.result.handler = "general"
        /\ call.result.handled.answer = IntAnswer(5)

\* C12: for a task without files the catch-all handler is used and the
\* reply of the language model is the answer unchanged, so that the reply
\* "5" is submitted as the text "5", a JSON string.
C12_CatchAllKeepsText ==
    (IsCall("solve_task") /\ call.file_urls = <<>>) =>
        /\ call.result.handler = "general"
        /\ call.result.handled.answer = call.reply
        /\ call.reply = PyStr(<<"5">>) =>
               /\ call.result.handled.answer = StrAnswer(<<"5">>)
               /\ JsonKind(call.result.handled.answer) = "string"

\* C12 witness: a task without files was solved with the reply "5".
C12_Witness ==
    /\ IsCall("solve_task")
    /\ call.file_urls = <<>>
    /\ call.reply = PyStr(<<"5">>)
    /\ call.result.handler = "general"
    /\ JsonKind(call.result.handled.answer) = "string"

\* C13: in the tabular strategy a reply that parses as a number (as a float
\* or as an integer) becomes a numeric answer, written as a JSON number; it
\* is kept as text only when neither parse succeeds.
C13_NumericReplyBecomesNumber ==
    /\ (IsCall("solve_math_problem") /\ TruthyStr(call.reply)) =>
          /\ ParsesAsNumber(call.reply.chars) => IsNumeric(call.result)
          /\ JsonKind(call.result) = "string" => ~ParsesAsNumber(call.reply.chars)
    /\ (IsCall("solve_task") /\ call.result.handler = "analysis"
        /\ call.result.data_type = "csv" /\ call.readable /\ TruthyStr(call.reply)) =>
          (ParsesAsNumber(call.reply.chars) =>
              JsonKind(call.result.handled.answer) = "number")

\* The extensions of the downloaded files of a solve_task call.
DownloadedExts ==
    {call.result.files[i].parts[Len(call.result.files[i].parts)] :
        i \in 1..Len(call.result.files)}

\* C14: the handler is a function of the set of extensions of the downloaded
\* files alone, with PDF before tabular before catch-all; one handler is
\* invoked (at most one request goes to the language model), whatever the
\* order of the files.
C14_DispatchBySetOfExtensions ==
    IsCall("solve_task") =>
        /\ call.result.handler =
              (IF ".pdf" \in DownloadedExts THEN "pdf"
               ELSE IF DownloadedExts \cap {".csv", ".json"} # {} THEN "analysis"
               ELSE "general")
        /\ Len(call.result.handled.llm) <= 1

\* C14 witness: a text file and then a PDF were downloaded and the PDF
\* handler was invoked.
C14_Witness ==
    /\ IsCall("solve_task")
    /\ Len(call.result.files) = 2
    /\ EndsWith(call.result.files[1], {".txt"})
    /\ EndsWith(call.result.files[2], {".pdf"})
    /\ call.result.handler = "pdf"
    /\ Len(call.result.handled.llm) = 1

\* C15: when the tabular strategy is selected, the file handed to it is a
\* downloaded file with the extension csv or json, and the format tag is the
\* format of that file.
C15_TabularPayloadIsDataFile ==
    (IsCall("solve_task") /\ call.result.handler = "analysis") =>
        /\ EndsWith(call.result.file, {".csv", ".json"})
        /\ call.result.data_type = "csv" <=> EndsWith(call.result.file, {".csv"})
        /\ call.result.data_type = "json" <=> EndsWith(call.result.file, {".json"})

\* C16: when the PDF strategy is selected and the task text refers to
\* "page N", no page other than page N is extracted, for every N; without a
\* reference all pages are extracted in order.
C16_PageReferenceRestricts ==
    (IsCall("solve_task") /\ call.result.handler = "pdf") =>
        LET refs == {i \in 1..Len(call.raw) : call.raw[i].kind = "pageref"}
            extracted == call.result.handled.extracted
        IN IF refs # {}
           THEN \A k \in 1..Len(extracted) :
                    extracted[k] = call.raw[CHOOSE i \in refs : \A j \in refs : i <= j].n
           ELSE extracted = [k \in 1..call.pdf_pages |-> k]

\* The k-th smallest element of a set of indices.
Kth(S, k) == CHOOSE i \in S : Cardinality({j \in S : j <= i}) = k

\* C17 as stated: the file URLs of a parsed task are exactly the targets of
\* the hyperlinks that end in one of the five data extensions, in document
\* order.
C17_LinksEndingInExtension ==
    IsCall("parse_quiz_task") =>
        LET hits == {i \in 1..Len(call.content) :
                        /\ call.content[i].kind = "a"
                        /\ call.content[i].href[Len(call.content[i].href)] \in DataExts}
        IN /\ Len(call.result.file_urls) = Cardinality(hits)
           /\ \A k \in 1..Cardinality(hits) :
                 call.result.file_urls[k] = call.content[Kth(hits, k)].href

\* C17: the file URLs of a parsed task are exactly the targets of the
\* hyperlinks that contain one of the five data extensions anywhere (at the
\* end, before a query, inside the path), in document order.
C17_LinksContainingExtension ==
    IsCall("parse_quiz_task") =>
        LET hits == {i \in 1..Len(call.content) :
                        /\ call.content[i].kind = "a"
                        /\ \E k \in 1..Len(call.content[i].href) :
                               call.content[i].href[k] \in DataExts}
        IN /\ Len(call.result.file_urls) = Cardinality(hits)
           /\ \A k \in 1..Cardinality(hits) :
                 call.result.file_urls[k] = call.content[Kth(hits, k)].href

\* C17 witness: a link whose target has a query after the extension and a
\* link whose target ends in the extension were both collected, in order.
C17_Witness ==
    /\ IsCall("parse_quiz_task")
    /\ call.result.file_urls =
          <<<<"https://x/", "report", ".pdf", "?dl=1">>, <<"https://x/", "data", ".csv">>>>

\* C19: parse_quiz_task makes one request to the language model, and when
\* that request fails parsing still succeeds, with the plain text of the
\* page (of a hyperlink, its visible text) as the task description.
C19_ParseSurvivesModelFailure ==
    IsCall("parse_quiz_task") =>
        /\ Len(call.llm) = 1
        /\ call.result # NoneRec
        /\ Len(call.result.raw_content) = Len(call.content)
        /\ \A i \in 1..Len(call.content) :
              call.result.raw_content[i] =
                 (IF call.content[i].kind = "a" THEN Word ELSE call.content[i])
        /\ call.llm[1] = NoneRec =>
              call.result.task_description = PyStr(call.result.raw_content)
        /\ TruthyStr(call.llm[1]) => call.result.task_description = call.llm[1]

\* C19 witness: the request failed for a page with a page reference and a
\* hyperlink, and the description is the text of the two.
C19_Witness ==
    /\ IsCall("parse_quiz_task")
    /\ call.llm = <<NoneRec>>
    /\ call.content = <<PageRef(1), Link(<<"https://x/", "data", ".csv">>)>>
    /\ call.result.task_description = PyStr(<<PageRef(1), Word>>)

\* C20: fetching a page that navigates successfully but has no result region
\* does not fail: a page record with content and html is returned, the
\* content being the visible text of the whole page.
C20_NoResultRegionStillFetches ==
    (IsCall("fetch_quiz_page") /\ call.rendered.started /\ call.rendered.nav_ok
     /\ call.rendered.result = "absent" /\ call.rendered.body # <<>>) =>
        /\ call.result # NoneRec
        /\ call.result.content = call.rendered.body
        /\ call.result.html = call.rendered.html

\* ------------------------------------------------ claims C27, C28 (chain)
\* C27: while the timer runs, remaining() is max(0, timeout - elapsed) and
\* not negative, is_timeout() holds exactly when remaining() is zero, and
\* before the timeout elapsed() + remaining() is the configured timeout; and
\* remaining() never increases from one state to the next.
C27_BudgetInvariants ==
    /\ [](pc \notin {"start", "done"} =>
            /\ remaining >= 0
            /\ (timeout_seconds >= elapsed => remaining = timeout_seconds - elapsed)
            /\ (timeout_seconds < elapsed => remaining = 0)
            /\ (is_timeout <=> remaining = 0)
            /\ (~is_timeout => elapsed + remaining = timeout_seconds))
    /\ [][remaining' <= remaining]_vars

\* C27 witness: the timer runs, more time than the timeout has passed and
\* nothing remains.
C27_Witness ==
    /\ pc \notin {"start", "done"}
    /\ timeout_seconds > 0
    /\ elapsed > timeout_seconds
    /\ is_timeout
    /\ remaining = 0

\* C28: when an iteration after the first starts fetching, nothing of the
\* iteration before it is left in the chain's state but the current URL
\* (the next URL of that iteration's verdict) and the timer: page, task,
\* answer and verdict are unbound; and what an iteration submits is the
\* answer and the quiz URL of that iteration.
C28_OnlyUrlAndBudgetCarryOver ==
    /\ pc = "FETCH" =>
          /\ quiz_data = NoneRec /\ task_info = NoneRec /\ answer = NoneRec
          /\ response = NoneRec /\ http = NoHttp
          /\ quiz_count > 1 =>
                \E k \in 1..Len(log) :
                    /\ IsEv(log[k], "SUBMIT", "ok")
                    /\ log[k].iter = quiz_count - 1
                    /\ log[k].data.url = current_url
    /\ pc = "PARSE" => task_info = NoneRec /\ answer = NoneRec /\ response = NoneRec
    /\ pc = "SOLVE" => answer = NoneRec /\ response = NoneRec
    /\ pc = "POST" =>
          /\ response = NoneRec
          /\ submits[Len(submits)].iter = quiz_count
          /\ submits[Len(submits)].payload.answer = answer
          /\ submits[Len(submits)].payload.url = current_url

\* C28 witness: the second iteration is fetching after the first one
\* submitted an answer.
C28_Witness ==
    /\ pc = "FETCH"
    /\ quiz_count = 2
    /\ Len(sent) = 1
    /\ sent[1].payload.answer # NoneRec
    /\ current_url = "https://x/q2"

\* ------------------------------------------------------------------ C21
\* The indexes of the file URLs of the solve_task call whose download
\* succeeded.
OkIndexes == {i \in 1..Len(call.file_urls) : call.oks[i]}

C22_SessionTornDown ==
    IsCall("browser_session") =>
        /\ call.result.sessions = 1
        /\ call.result.left_open = {}

\* ------------------------------------------------------------------ C29
\* C29: six handlers are registered, and the handler that solve_task picks
\* is the PDF, the tabular or the catch-all one, never the raw-API, the
\* chart or the scraping one.
C29_DispatchPicksThreeOfSix ==
    /\ Cardinality(Handlers) = 6
    /\ IsCall("solve_task") =>
          /\ call.result.handler \in {"pdf", "analysis", "general"}
          /\ call.result.handler \notin {"api", "visualization", "scraping"}

\* C29 witness: a task without a file, whose description an API or a
\* scraping handler could have taken, went to the catch-all handler.
C29_Witness ==
    /\ IsCall("solve_task")
    /\ call.file_urls = <<>>
    /\ call.result.handler = "general"
    /\ call.result.handled.llm # <<>>

\* ------------------------------------------------------------------ C30
\* The spellings of the two supported methods among the methods of the
\* model; an absent method stands for GET.
GetSpellings == {"<missing>", "GET", "get"}
PostSpellings == {"POST", "Post"}

\* C30: the raw-API handler sends at most one request: one GET for a GET
\* method, one POST for a POST method, in any case of letters, and none
\* for another method; an unsupported method, a status other than 200 or a
\* transport error give no answer; the language model is called only with
\* the body of a 200 response, and its reply is the answer.
C30_AtMostOneRequest ==
    IsCall("api_handle") =>
        LET r == call.result
            good == call.outcome.kind = "response" /\ call.outcome.status_code = 200
        IN /\ Len(r.requests) <= 1
           /\ (call.method \in GetSpellings => r.requests = <<"GET">>)
           /\ (call.method \in PostSpellings => r.requests = <<"POST">>)
           /\ (call.method \notin GetSpellings \cup PostSpellings =>
                 r.requests = <<>> /\ r.answer = NoneRec)
           /\ (~good => r.answer = NoneRec /\ r.contexts = <<>>)
           /\ (r.contexts # <<>> =>
                 good /\ r.contexts = <<call.outcome.text>> /\ r.answer = call.reply)
           /\ (good /\ r.requests # <<>> => r.contexts = <<call.outcome.text>>)

\* C30 witness: a method written in small letters sent one GET, whose 200
\* body went to the language model.
C30_Witness ==
    /\ IsCall("api_handle")
    /\ call.method = "get"
    /\ call.result.requests = <<"GET">>
    /\ call.result.contexts = <<"body">>
    /\ call.result.answer # NoneRec

\* ------------------------------------------------------------------ C23
\* C23: the file that a chain's handler reads was written by that chain
\* and holds what that chain downloaded, whatever other chains run beside
\* it.
C23_DownloadedFilesPrivate ==
    \A k \in 1..Len(reads) :
        /\ reads[k].writer = reads[k].task
        /\ reads[k].content = LinkedFile(tasks[reads[k].task].url)

\* ------------------------------------------------------------------ C24
\* The tasks that wait for a reply of the language model.
WaitingForModel == {t \in 1..Len(tasks) : tasks[t].pc \in {"llm_parse", "llm_solve"}}

\* C24: while a chain waits for a reply of the language model the loop is
\* free: the front door can answer a request and another chain whose wait
\* is over can go on.
C24_ModelCallYields ==
    WaitingForModel # {} =>
        /\ LoopFree
        /\ (Len(responses) < MaxRequests => ENABLED ReceiveQuiz)
        /\ \A u \in 1..Len(tasks) :
              tasks[u].pc = "submit" => ENABLED SubmitDone(u)

\* ------------------------------------------------------------------ C25
\* The request of a response has every required field.
HasFields(r) ==
    r.body.kind = "object" /\ DOMAIN r.body.fields = {"email", "secret", "url"}

\* The tasks that the responses started.
Started == {responses[k].task : k \in 1..Len(responses)} \ {0}

\* C25 as stated: 400 exactly for a body that is not JSON or lacks a
\* required field, 403 for the others whose secret or email differs from
\* the configured one, 200 for the rest.
C25_StatusByFieldsAndCredentials ==
    \A k \in 1..Len(responses) :
        LET r == responses[k] IN
        IF ~HasFields(r) THEN r.status_code = 400
        ELSE IF r.body.fields.secret # Secret \/ r.body.fields.email # Email
             THEN r.status_code = 403
        ELSE r.status_code = 200

\* C25, amended: 400 for a body that is not JSON, is not an object, lacks
\* a required field or has an email that is not an address, whatever its
\* credentials; 403 for the others whose secret or email differs from the
\* configured one; 200 with status "success" for the rest; and the tasks
\* are those of the 200 responses, one each.
C25_StatusByValidationAndCredentials ==
    /\ \A k \in 1..Len(responses) :
          LET r == responses[k] IN
          /\ IF ~HasFields(r) \/ r.body.fields.email = "not-an-email"
             THEN r.status_code = 400
             ELSE IF r.body.fields.secret # Secret \/ r.body.fields.email # Email
                  THEN r.status_code = 403
             ELSE r.status_code = 200 /\ r.status = "success"
          /\ r.status_code = 200 <=> r.task # 0
          /\ r.task # 0 => tasks[r.task].url = r.body.fields.url
    /\ Started = 1..Len(tasks)
    /\ Cardinality({k \in 1..Len(responses) : responses[k].task # 0}) = Len(tasks)

\* C25 witness: a request with the right secret and an email that is not an
\* address was answered 400 and started nothing, and a right request was
\* answered 200 and started a chain.
C25_Witness ==
    /\ Len(responses) = 2
    /\ HasFields(responses[1])
    /\ responses[1].body.fields.email = "not-an-email"
    /\ responses[1].body.fields.secret = Secret
    /\ responses[1].status_code = 400
    /\ responses[2].status_code = 200
    /\ responses[2].task = 1
    /\ Len(tasks) = 1

\* ------------------------------------------------------------------ C26
\* The outcomes of a chain that ended.
Outcomes == {"completed", "stopped", "timed_out", "error_logged"}

\* C26: when a 200 response is made its chain has not run and no other
\* chain has moved; a response is never changed afterwards, whatever its
\* chain does; a chain that ends, ends in an outcome that was dealt with in
\* the task; and the front door goes on answering whenever the loop is
\* free.
C26_AcknowledgedBeforeSolving ==
    /\ [][Len(responses') > Len(responses) =>
            /\ SubSeq(tasks', 1, Len(tasks)) = tasks
            /\ (responses'[Len(responses')].status_code = 200 =>
                  /\ Len(tasks') = Len(tasks) + 1
                  /\ tasks'[Len(tasks')].pc = "created"
                  /\ tasks'[Len(tasks')].outcome = "running")]_vars
    /\ [][SubSeq(responses', 1, Len(responses)) = responses]_vars
    /\ [](\A t \in 1..Len(tasks) :
            tasks[t].pc = "done" <=> tasks[t].outcome \in Outcomes)
    /\ []((LoopFree /\ Len(responses) < MaxRequests) => ENABLED ReceiveQuiz)

\* C26 witness: the chain of the first request ended in an exception that
\* was logged, and a second request was answered 200 all the same.
C26_Witness ==
    /\ Len(responses) = 2
    /\ responses[1].status_code = 200
    /\ responses[2].status_code = 200
    /\ tasks[1].pc = "done"
    /\ tasks[1].outcome = "error_logged"
    /\ tasks[2].pc = "created"

\* ------------------------------------------------------------------ C36
\* C36: validate_json never raises, and it returns True only for a text:
\* any value that is not a text gives False.
C36_ValidateJsonNeverRaises ==
    IsCall("validate_json") =>
        /\ call.result.raised = ""
        /\ (call.result.value => call.data.type = "str")
        /\ (call.data.type # "str" => ~call.result.value)

\* ------------------------------------------------------------------ C31
\* The iteration's task has been parsed and has no submit URL.
NoSubmitUrl == task_info # NoneRec /\ ~Truthy(task_info.submit_url)

\* The last n events of the log.
LastEvents(n) == SubSeq(log, Len(log) - n + 1, Len(log))

\* C31: every parsed task enters the SOLVE stage, with or without a submit
\* URL; for a task without one the stage runs, an answer it returns is
\* recorded as solved, the iteration then fails at the submit URL and ends
\* the chain, and nothing of that iteration is submitted or posted.
C31_SubmitUrlCheckedAfterSolve ==
    /\ [][(pc = "PARSE" /\ task_info' # NoneRec) =>
            /\ pc' = "SOLVE"
            /\ log'[Len(log')] = Ev(quiz_count, "SOLVE", "start", NoneRec)]_vars
    /\ [](NoSubmitUrl =>
            /\ pc \in {"SOLVE", "done"}
            /\ \A j \in 1..Len(submits) : submits[j].iter # quiz_count
            /\ PostsOf(quiz_count) = {}
            /\ (pc = "done" /\ answer # NoneRec =>
                  LastEvents(3) = <<Ev(quiz_count, "SOLVE", "ok", NoneRec),
                                    Ev(quiz_count, "SUBMIT", "start", NoneRec),
                                    Ev(quiz_count, "SUBMIT", "fail", NoneRec)>>)
            /\ (pc = "done" /\ answer = NoneRec =>
                  LastEvents(1) = <<Ev(quiz_count, "SOLVE", "fail", NoneRec)>>))

\* C31 witness: a task without a submit URL was solved, and the chain ended
\* with the answer in hand and nothing submitted.
C31_Witness ==
    /\ NoSubmitUrl
    /\ pc = "done"
    /\ answer # NoneRec
    /\ submits = <<>>
    /\ sent = <<>>
    /\ Len(log) >= 3
    /\ IsEv(log[Len(log) - 2], "SOLVE", "ok")

\* ------------------------------------------------------------------ C32
\* The page fetches of the chain: the FETCH stages that were started.
Fetches == {k \in 1..Len(log) : IsEv(log[k], "FETCH", "start")}

\* C32: once the Budget has expired no FETCH is started and no iteration
\* begins, so every POST from then on belongs to the one iteration in
\* flight; an iteration sends at most one POST, and a POST is sent only by
\* the iteration that is running; the chain never has more POSTs than page
\* fetches.
C32_ExpiredBudgetBoundsRequests ==
    /\ [][is_timeout =>
            /\ quiz_count' = quiz_count
            /\ Fetches' = Fetches
            /\ is_timeout']_vars
    /\ [][sent' # sent =>
            /\ Len(sent') = Len(sent) + 1
            /\ SubSeq(sent', 1, Len(sent)) = sent
            /\ sent'[Len(sent')].iter = quiz_count
            /\ quiz_count' = quiz_count]_vars
    /\ [](\A i \in 1..quiz_count : Cardinality(PostsOf(i)) <= 1)
    /\ [](Cardinality(Fetches) = quiz_count /\ Len(sent) <= Cardinality(Fetches))

\* C32 witness: the second iteration ran a stage after the Budget had
\* expired and then sent its POST, the second of two for two fetches.
C32_Witness ==
    /\ pc = "POST"
    /\ overrun
    /\ is_timeout
    /\ quiz_count = 2
    /\ Len(sent) = 2
    /\ Cardinality(Fetches) = 2

\* ------------------------------------------------------------------ C33
\* C33: submit_answer is called only with an answer that is not None.  For
\* a task with a submit URL and an empty reply of the language model, the
\* PDF strategy (when it extracted its text) and the catch-all strategy
\* submit the empty text, once; the tabular strategy has no answer and
\* nothing is submitted.
C33_EmptyReplyByStrategy ==
    IsCall("solve_and_submit") =>
        LET r == call.result IN
        /\ Len(r.submit_calls) <= 1
        /\ \A k \in 1..Len(r.submit_calls) :
              /\ r.submit_calls[k].answer # NoneRec
              /\ r.submit_calls[k].answer = r.answer
        /\ (r.answer = NoneRec => r.submit_calls = <<>>)
        /\ (call.reply = PyStr(<<>>) /\ Truthy(call.submit_url) =>
              /\ (r.handler \in {"pdf", "general"} /\ r.llm # <<>> =>
                    r.submit_calls = <<[submit_url |-> call.submit_url,
                                        answer |-> StrAnswer(<<>>)]>>)
              /\ (r.handler = "analysis" =>
                    r.answer = NoneRec /\ r.submit_calls = <<>>))

\* C33 witness: the PDF strategy got an empty reply and the empty text was
\* submitted.
C33_Witness ==
    /\ IsCall("solve_and_submit")
    /\ call.reply = PyStr(<<>>)
    /\ call.result.handler = "pdf"
    /\ call.result.llm = <<PyStr(<<>>)>>
    /\ Len(call.result.submit_calls) = 1
    /\ call.result.submit_calls[1].answer = StrAnswer(<<>>)

\* ------------------------------------------------------------------ C34
\* C34: the files that one task downloaded from distinct URLs are at
\* distinct paths, so none of them was overwritten by a later download of
\* the same task.
C34_DistinctUrlsDistinctPaths ==
    IsCall("solve_task") =>
        \A k1, k2 \in 1..Len(call.result.files) :
            call.file_urls[Kth(OkIndexes, k1)] # call.file_urls[Kth(OkIndexes, k2)]
                => call.result.files[k1] # call.result.files[k2]

\* ------------------------------------------------------------------ C35
\* The body of a response's request is a well-formed quiz request.
WellFormed(r) == HasFields(r) /\ r.body.fields.email # "not-an-email"

\* C35: a body that is not a well-formed request is answered 400 whatever
\* its credentials; 403 is answered only to a well-formed body, for the
\* secret when the secret is wrong (also when the email is wrong too) and
\* for the email when only the email is wrong; and a request answered 400
\* or 403 starts no chain and leaves the tasks, the files and the loop as
\* they were.
C35_ValidationBeforeCredentials ==
    /\ [](\A k \in 1..Len(responses) :
            LET r == responses[k] IN
            /\ ~WellFormed(r) => r.status_code = 400
            /\ r.status_code = 403 => WellFormed(r)
            /\ (WellFormed(r) /\ r.body.fields.secret # Secret) =>
                  r.status_code = 403 /\ r.status = "Invalid secret"
            /\ (WellFormed(r) /\ r.body.fields.secret = Secret
                   /\ r.body.fields.email # Email) =>
                  r.status_code = 403 /\ r.status = "Invalid email"
            /\ r.status_code \in {400, 403} => r.task = 0)
    /\ [][(Len(responses') > Len(responses)
             /\ responses'[Len(responses')].status_code \in {400, 403}) =>
            /\ tasks' = tasks
            /\ disk' = disk
            /\ reads' = reads
            /\ blocking' = blocking]_vars

\* C35 witness: after a request that started a chain, a request without a
\* url and with a wrong secret was answered 400, and nothing but the first
\* chain exists.
C35_Witness ==
    /\ Len(responses) = 2
    /\ responses[1].status_code = 200
    /\ responses[2].body = [kind |-> "object",
                            fields |-> [email |-> Email, secret |-> "wrong"]]
    /\ responses[2].status_code = 400
    /\ responses[2].task = 0
    /\ Len(tasks) = 1
====
